---------------------------- MODULE Spec2Model ----------------------------
(***************************************************************************)
(* Hindsight Recall: the Electron supervisor (frontend/main.js, second     *)
(* definition of the entry point starting at line 730) that gates,         *)
(* starts, monitors and restarts the capture worker, and ingests the       *)
(* worker's status file.                                                   *)
(*                                                                         *)
(* Modelling conventions                                                   *)
(*  - Every handler of the event loop (timer callback, IPC handler, child  *)
(*    'exit' callback, promise continuation) is one atomic action.         *)
(*  - Handlers are written as operators over a record g of the program's   *)
(*    mutable state (see G), so that a handler that calls another handler  *)
(*    is the composition of the two operators; Commit(g) assigns the       *)
(*    result to the variables.                                             *)
(*  - Timers carry no deadline: a pending timer may fire at any later      *)
(*    moment.  Date.now() is the variable now (seconds).                   *)
(*  - The worker (python -m capture.cli) is the environment: it may write  *)
(*    its pid file, write status records, and exit at any moment.          *)
(*  - HINDSIGHT_PASSPHRASE is assumed unset at launch, so needPass is      *)
(*    exactly "the wrapped key file exists" (main.js:1671).                *)
(*  - A request to the unlock server (lines 1869-1915) is one newline-     *)
(*    terminated line; its handler is the action UnlockRequest.  The token *)
(*    of a request is either the one the server issued or another one.     *)
(*                                                                         *)
(* Specifications (one state space each, over the same variables)          *)
(*  - Spec:     launch, every startup path, and the automatic starters     *)
(*              that need no status record.                                *)
(*  - SpecRun:  an unlocked session whose first worker has just been       *)
(*              spawned: the control surface and the automatic starters.   *)
(*  - SpecPoll: status ingestion (pollStatus) of a running session.        *)
(*  - SpecDup:  pollStatus fed with the records of one worker in sequence  *)
(*              order, for the reporting of duplicate frames.              *)
(*  - SpecStall, SpecHealth, SpecBackend, SpecCount: a running session     *)
(*              whose worker stalls, reports display errors, reports the   *)
(*              UnidentifiedImageError signature, or reports capture       *)
(*              counts that go down.                                       *)
(*  - SpecPause: a running session paused and resumed by the system.       *)
(*  - SpecUnlock: launch and the requests to the unlock server.            *)
(*  - SpecSession: one session with passphrase rotation and restarts.      *)
(*  - SpecConn: two connections to the unlock server, chunks interleaved.  *)
(*  - SpecLock: launch and the prompt loop with the lockout.               *)
(*  - SpecTerm, SpecPrefs: terminations of a worker, and a change of the   *)
(*              preferences, with the timeouts delivered (fairness).       *)
(*  - SpecGate: launch followed by the user's start, stop and purge.       *)
(*  - SpecCauses, SpecLoops: overlapping pause causes, prompt loops.       *)
(*  - SpecWriters: two workers overwriting the status file in turn.        *)
(*  - SpecLogger: the singleton logger of frontend/logging.js.             *)
(*  - The key manager (python -m capture.keymgr, capture.encryption) is    *)
(*    the environment; its answers follow its specified behaviour.         *)
(***************************************************************************)
EXTENDS Integers, Sequences, FiniteSets

\* ------------------------------------------------------------------ bounds
MaxProcs == 2
MaxPending == 1
MaxScans == 1
MaxErrors == 4
MaxSeq == 2
MaxDupSeq == 3
MaxDupLogs == 3
MaxHealthTimers == 2
MaxStallCycles == 2

\* ---------------------------------------------------------------- universe
Workers == 1..MaxProcs
NoPid == 0
TimerKinds == {"verify", "resume", "prefs", "stall", "backend"}
KillSources == {"escalate", "stray"}
Conns == {1, 2}
NoSock == [state |-> "closed", buf |-> <<>>, pend |-> <<>>, sent |-> {}]
Backends == {"auto", "mss", "imagegrab"}

VARIABLES
  flow,                 \* position of the app.whenReady startup flow
  loop2,                \* position of a second prompt loop, and the passphrase it holds
  needPass,             \* const needPass (main.js:1671): the wrapped key file exists
  needPassGlobal,       \* _needPassGlobal
  autostartMode,        \* HINDSIGHT_AUTOSTART === '1'
  spawnFaults,          \* environment: opening the log files or spawn() may fail
  unlockedSuccessfully,
  unlockedUI,
  unlockServer,         \* "none" | "raw" | "pass": mode of the listening unlock server
  serverSecret,         \* the secret handed to the listening unlock server
  pass,                 \* the passphrase the prompt loop holds once it is accepted
  keymgr,               \* the key manager's files: [wrap, consecutive_failures, lock_until]
  socks,                \* connections to the unlock server: [state, buf, pend, sent]
  windowOpen,           \* main BrowserWindow exists (IPC control surface usable)
  userRequestedStop,
  pendingRestartTimer,  \* TRUE when the health restart timeout is pending
  systemPaused,
  spawnInFlight,
  captureProc,          \* pid of the child referenced by captureProc, NoPid when null
  pidFile,              \* content of data/capture.pid, NoPid when absent
  proc,                 \* OS state of every worker process the supervisor may spawn
  timers,               \* pending fire-and-forget timeouts, by kind
  killTimers,           \* pending SIGKILL escalation timeouts {[src, pid]}
  scans,                \* `ps` listings in flight (scanForOtherCaptureProcesses)
  prefs,                \* [backend]; interval and logLevel only matter when they change
  prefsFile,            \* the preferences file as last written by savePrefs
  backendSwitchReason,  \* TRUE once 'imagegrab_unidentifiedimageerror' is recorded
  statusFile,           \* content of data/status.json
  pollScheduled,        \* TRUE while a setTimeout(pollStatus, ...) is pending
  consecutiveDisplayErrors,
  consecutiveUnidentified,
  lastHealthRestart,
  lastSuccessfulStatus,
  lastLoggedCaptureCount,
  lastLoggedError,
  lastHeartbeat,
  lastInstanceId,
  lastSequence,
  lastSequenceTs,
  lastServiceInstance,
  now,                  \* Date.now(), in seconds
  keyProduced,          \* history: the key manager produced a usable key this session
  seqObserved,          \* history: a record with a numeric sequence has been accepted
  dupRun,               \* history: [n, logs] consecutive duplicate-frame records polled
                        \* and the '[duplicate]' lines logged for them
  healthTimers,         \* number of health restart timeouts pending in the event loop
  healthRestartLog,     \* history: the times of the '[health] ... scheduling restart' lines
  stallCycles,          \* history: stall restarts since the sequence last advanced
  stopAsked,            \* history: "no", or when the user's last capture request was a
                        \* stop: "running" / "paused" (the value of systemPaused then)
  bornAt,               \* history: the time at which each worker was spawned
  logLevel,             \* logging.js: prefs.logLevel of the logger's getPrefs(), "" unset
  recent,               \* logging.js: _recent, as its length and its newest line
  pauseCauses,          \* history: the pause causes that PauseEvent has begun and
                        \* ResumeEvent has not ended
  out                   \* what the last handler emitted (log lines, start results, events)

vars == <<flow, loop2, needPass, needPassGlobal, autostartMode, spawnFaults,
          unlockedSuccessfully, unlockedUI, unlockServer, serverSecret, pass,
          keymgr, socks, windowOpen, userRequestedStop, pendingRestartTimer, systemPaused,
          spawnInFlight, captureProc, pidFile, proc, timers, killTimers,
          scans, prefs, prefsFile, backendSwitchReason, statusFile, pollScheduled,
          consecutiveDisplayErrors, consecutiveUnidentified, lastHealthRestart,
          lastSuccessfulStatus, lastLoggedCaptureCount, lastLoggedError,
          lastHeartbeat, lastInstanceId, lastSequence, lastSequenceTs,
          lastServiceInstance, now, keyProduced, seqObserved, dupRun,
          healthTimers, healthRestartLog, stallCycles, stopAsked, bornAt,
          pauseCauses, logLevel, recent, out>>

\* status.json: absent, torn (unparseable text) or a JSON record
StatusAbsent == [kind |-> "absent"]
StatusTorn(marker) == [kind |-> "torn", hasSeq |-> marker]

NoOut == [logs |-> {}, starts |-> {}, status |-> {}, poll |-> "none",
          base |-> -1, scans |-> 0, reqs |-> {}, replies |-> {}, helper |-> {},
          ipc |-> {}, log |-> {}, over |-> FALSE]

\* The program state as one record, and its assignment to the variables.
G == [flow |-> flow, loop2 |-> loop2, needPass |-> needPass, needPassGlobal |-> needPassGlobal,
      autostartMode |-> autostartMode, spawnFaults |-> spawnFaults,
      unlockedSuccessfully |-> unlockedSuccessfully, unlockedUI |-> unlockedUI,
      unlockServer |-> unlockServer, serverSecret |-> serverSecret,
      pass |-> pass, keymgr |-> keymgr, socks |-> socks, windowOpen |-> windowOpen,
      userRequestedStop |-> userRequestedStop,
      pendingRestartTimer |-> pendingRestartTimer, systemPaused |-> systemPaused,
      spawnInFlight |-> spawnInFlight, captureProc |-> captureProc,
      pidFile |-> pidFile, proc |-> proc, timers |-> timers,
      killTimers |-> killTimers, scans |-> scans, prefs |-> prefs,
      prefsFile |-> prefsFile,
      backendSwitchReason |-> backendSwitchReason, statusFile |-> statusFile,
      pollScheduled |-> pollScheduled,
      consecutiveDisplayErrors |-> consecutiveDisplayErrors,
      consecutiveUnidentified |-> consecutiveUnidentified,
      lastHealthRestart |-> lastHealthRestart,
      lastSuccessfulStatus |-> lastSuccessfulStatus,
      lastLoggedCaptureCount |-> lastLoggedCaptureCount,
      lastLoggedError |-> lastLoggedError, lastHeartbeat |-> lastHeartbeat,
      lastInstanceId |-> lastInstanceId, lastSequence |-> lastSequence,
      lastSequenceTs |-> lastSequenceTs,
      lastServiceInstance |-> lastServiceInstance, now |-> now,
      keyProduced |-> keyProduced, seqObserved |-> seqObserved,
      dupRun |-> dupRun, healthTimers |-> healthTimers,
      healthRestartLog |-> healthRestartLog, stallCycles |-> stallCycles,
      stopAsked |-> stopAsked, bornAt |-> bornAt, pauseCauses |-> pauseCauses,
      logLevel |-> logLevel, recent |-> recent,
      out |-> NoOut]

\* The same record for a step of the environment, which emits nothing.
GE == G

Commit(g) ==
  /\ ~g.out.over
  /\ flow' = g.flow
  /\ loop2' = g.loop2
  /\ needPass' = g.needPass
  /\ needPassGlobal' = g.needPassGlobal
  /\ autostartMode' = g.autostartMode
  /\ spawnFaults' = g.spawnFaults
  /\ unlockedSuccessfully' = g.unlockedSuccessfully
  /\ unlockedUI' = g.unlockedUI
  /\ unlockServer' = g.unlockServer
  /\ serverSecret' = g.serverSecret
  /\ pass' = g.pass
  /\ keymgr' = g.keymgr
  /\ socks' = g.socks
  /\ windowOpen' = g.windowOpen
  /\ userRequestedStop' = g.userRequestedStop
  /\ pendingRestartTimer' = g.pendingRestartTimer
  /\ systemPaused' = g.systemPaused
  /\ spawnInFlight' = g.spawnInFlight
  /\ captureProc' = g.captureProc
  /\ pidFile' = g.pidFile
  /\ proc' = g.proc
  /\ timers' = g.timers
  /\ killTimers' = g.killTimers
  /\ scans' = g.scans
  /\ prefs' = g.prefs
  /\ prefsFile' = g.prefsFile
  /\ backendSwitchReason' = g.backendSwitchReason
  /\ statusFile' = g.statusFile
  /\ pollScheduled' = g.pollScheduled
  /\ consecutiveDisplayErrors' = g.consecutiveDisplayErrors
  /\ consecutiveUnidentified' = g.consecutiveUnidentified
  /\ lastHealthRestart' = g.lastHealthRestart
  /\ lastSuccessfulStatus' = g.lastSuccessfulStatus
  /\ lastLoggedCaptureCount' = g.lastLoggedCaptureCount
  /\ lastLoggedError' = g.lastLoggedError
  /\ lastHeartbeat' = g.lastHeartbeat
  /\ lastInstanceId' = g.lastInstanceId
  /\ lastSequence' = g.lastSequence
  /\ lastSequenceTs' = g.lastSequenceTs
  /\ lastServiceInstance' = g.lastServiceInstance
  /\ now' = g.now
  /\ keyProduced' = g.keyProduced
  /\ seqObserved' = g.seqObserved
  /\ dupRun' = g.dupRun
  /\ healthTimers' = g.healthTimers
  /\ healthRestartLog' = IF "health.restart" \in g.out.logs
                          THEN Append(g.healthRestartLog, g.now)
                          ELSE g.healthRestartLog
  /\ stallCycles' = g.stallCycles
  /\ stopAsked' = g.stopAsked
  /\ bornAt' = g.bornAt
  /\ pauseCauses' = g.pauseCauses
  /\ logLevel' = g.logLevel
  /\ recent' = g.recent
  /\ out' = g.out

\* ------------------------------------------------------------ small helpers
\* broadcast('log:line', ...): out keeps the lines of the categories the
\* properties below speak about
ObservedLogs == {"stale", "duplicate", "anomaly.regressed", "health.restart",
                 "health.stalled", "health.backendswitch",
                 "lifecycle.baselinereset", "auth.locked",
                 "control.stop.childonly"}

Log(g, tag) ==
  IF tag \in ObservedLogs THEN [g EXCEPT !.out.logs = @ \cup {tag}] ELSE g

Overflow(g) == [g EXCEPT !.out.over = TRUE]

\* setTimeout(...) of one of the fire-and-forget kinds
Arm(g, kind) ==
  IF g.timers[kind] < MaxPending
    THEN [g EXCEPT !.timers[kind] = @ + 1]
    ELSE Overflow(g)

Disarm(g, kind) == [g EXCEPT !.timers[kind] = @ - 1]

\* process.kill(pid, 'SIGKILL'): the process dies at once; the supervisor
\* learns of it in the child 'exit' callback.
SigKill(g, pid) ==
  IF pid # NoPid /\ g.proc[pid] = "alive"
    THEN [g EXCEPT !.proc[pid] = "zombie"]
    ELSE g

\* process.kill(pid, 'SIGTERM'): the worker exits on its own schedule
\* (see WorkerExit), so sending the signal changes no state by itself.
SigTerm(g, pid) == g

\* readPid(): pid recorded in the pid file if that process exists.  A dead
\* child that has not been reaped yet still answers kill(pid, 0).
readPid(g) ==
  IF g.pidFile # NoPid /\ g.proc[g.pidFile] \in {"alive", "zombie"}
    THEN g.pidFile
    ELSE NoPid

Locked(g) == g.needPassGlobal /\ ~g.unlockedSuccessfully

\* if (pendingRestartTimer) { clearTimeout(pendingRestartTimer);
\* pendingRestartTimer = null; } (lines 1015, 1098, 1236)
ClearRestartTimer(g) ==
  IF g.pendingRestartTimer
    THEN [g EXCEPT !.pendingRestartTimer = FALSE, !.healthTimers = @ - 1]
    ELSE g

\* pendingRestartTimer = setTimeout(..., 1200) (line 1237)
SetRestartTimer(g) ==
  IF g.healthTimers < MaxHealthTimers
    THEN [g EXCEPT !.pendingRestartTimer = TRUE, !.healthTimers = @ + 1]
    ELSE Overflow(g)

\* ------------------------------------------------- stray-process scanning
\* scanForOtherCaptureProcesses(callback): starts `ps`; the listing is taken
\* by PsList and the 'close' callback runs in ScanClose.  kind "prestart" is
\* the pre-start purge of startDetached, kind "log" a scan without callback.
\* own (history) is the worker spawned by the start request of the scan.
scanForOtherCaptureProcesses(g, kind) ==
  IF kind = "log"
    THEN \* no callback: the listing only yields a log line when it ends
         [g EXCEPT !.out.scans = @ + 1]
    ELSE IF Len(g.scans) < MaxScans
      THEN [g EXCEPT !.out.scans = @ + 1,
                     !.scans = Append(@, [taken |-> FALSE, pids |-> {}, own |-> NoPid])]
      ELSE Overflow(g)

\* The pid the next spawn gets (NoPid when the model has no process left).
NextPid(g) ==
  IF \E w \in Workers : g.proc[w] = "unborn"
    THEN CHOOSE w \in Workers :
           /\ g.proc[w] = "unborn"
           /\ \A v \in Workers : g.proc[v] = "unborn" => w <= v
    ELSE NoPid

SpawnOutcomes ==
  IF spawnFaults THEN {"ok", "openFail", "spawnThrow"} ELSE {"ok"}

\* lines 1042-1057: the backend overrides in the environment of the worker
SpawnEnv(g) ==
  [forceBackend |-> IF g.prefs.backend # "auto" THEN g.prefs.backend ELSE "unset",
   switchReason |-> g.backendSwitchReason]

StartRecord(g, caller, userInitiated, action) ==
  [userInitiated |-> userInitiated, action |-> action,
   locked |-> Locked(g), stopActive |-> g.userRequestedStop,
   env |-> SpawnEnv(g)]

Return(g, rec) == [g EXCEPT !.out.starts = @ \cup {rec}]

\* startDetached, lines 1012-1084: the part after the four rejections.
\* oc is what the file system and spawn() do in this call.
SpawnWorker(g, caller, userInitiated, oc) ==
  LET rec(a) == StartRecord(g, caller, userInitiated, a)
      g0 == ClearRestartTimer(
              [g EXCEPT !.userRequestedStop = IF userInitiated THEN FALSE ELSE @])
      g1 == scanForOtherCaptureProcesses(g0, "prestart")
      \* archive a status file without the "sequence" marker
      g2 == IF g1.statusFile.kind # "absent" /\ ~g1.statusFile.hasSeq
              THEN Log([g1 EXCEPT !.statusFile = StatusAbsent], "lifecycle.archived")
              ELSE g1
      pid == NextPid(g2)
  IN CASE oc = "openFail" ->
            Return(Log(g2, "error.spawn"), rec("error"))
       [] oc = "spawnThrow" ->
            Return(Log([g2 EXCEPT !.spawnInFlight = TRUE], "error.spawn"), rec("error"))
       [] OTHER ->
            IF pid = NoPid THEN Overflow(g2)
            ELSE Return(Arm(Log([g2 EXCEPT !.spawnInFlight = TRUE,
                                           !.captureProc = pid,
                                           !.proc[pid] = "alive",
                                           !.bornAt[pid] = g2.now,
                                           !.scans[Len(g2.scans)].own = pid],
                                "control.started"), "verify"),
                        rec("started"))

\* A faulty StartGate that forgets the deferral while the key is locked.
StartGateNoDeferral(g, userInitiated) ==
  IF readPid(g) # NoPid THEN "already"
  ELSE IF g.userRequestedStop /\ ~userInitiated THEN "suppressed"
  ELSE IF g.spawnInFlight THEN "in-flight"
  ELSE "spawn"

\* A faulty StartGate that forgets the suppression after a user stop.
StartGateNoSuppression(g, userInitiated) ==
  IF readPid(g) # NoPid THEN "already"
  ELSE IF g.spawnInFlight THEN "in-flight"
  ELSE IF g.needPassGlobal /\ ~g.unlockedSuccessfully THEN "deferred"
  ELSE "spawn"

\* A faulty startDetached that honours the user's start before the gates.
startDetachedClearsFirst(g, caller, userInitiated, oc) ==
  LET g0 == [g EXCEPT !.userRequestedStop = IF userInitiated THEN FALSE ELSE @]
      rec(a) == StartRecord(g, caller, userInitiated, a)
      gate == IF readPid(g0) # NoPid THEN "already"
              ELSE IF g0.userRequestedStop /\ ~userInitiated THEN "suppressed"
              ELSE IF g0.spawnInFlight THEN "in-flight"
              ELSE IF g0.needPassGlobal /\ ~g0.unlockedSuccessfully THEN "deferred"
              ELSE "spawn"
  IN CASE gate = "already" -> Return(g0, rec("already"))
       [] gate = "suppressed" -> Return(Log(g0, "control.suppressed"), rec("suppressed"))
       [] gate = "in-flight" -> Return(Log(g0, "control.inflight"), rec("in-flight"))
       [] gate = "deferred" -> Return(Log(g0, "control.deferred"), rec("deferred"))
       [] OTHER -> SpawnWorker(g, caller, userInitiated, oc)

\* startDetached, lines 997-1011: the four rejections, in the code's order
StartGate(g, userInitiated) ==
  IF readPid(g) # NoPid THEN "already"
  ELSE IF g.userRequestedStop /\ ~userInitiated THEN "suppressed"
  ELSE IF g.spawnInFlight THEN "in-flight"
  ELSE IF g.needPassGlobal /\ ~g.unlockedSuccessfully THEN "deferred"
  ELSE "spawn"

\* startDetached, lines 995-1085
startDetached(g, caller, userInitiated, oc) ==
  LET rec(a) == StartRecord(g, caller, userInitiated, a)
      gate == StartGate(g, userInitiated)
  IN CASE gate = "already" -> Return(g, rec("already"))
       [] gate = "suppressed" -> Return(Log(g, "control.suppressed"), rec("suppressed"))
       [] gate = "in-flight" -> Return(Log(g, "control.inflight"), rec("in-flight"))
       [] gate = "deferred" -> Return(Log(g, "control.deferred"), rec("deferred"))
       [] OTHER -> SpawnWorker(g, caller, userInitiated, oc)

\* stopDetached, lines 1087-1115
stopDetached(g) ==
  LET pid == readPid(g)
  IN IF pid = NoPid
       THEN IF g.captureProc # NoPid
              THEN Log(SigTerm(g, g.captureProc), "control.stop.childonly")
              ELSE g
       ELSE Log([ClearRestartTimer(SigTerm(g, pid))
                   EXCEPT !.userRequestedStop = TRUE,
                          !.killTimers = @ \cup {[src |-> "escalate", pids |-> {pid}]}],
                "control.stop")

\* internalStopForHealth, lines 1620-1625
internalStopForHealth(g) ==
  LET pid == readPid(g)
  IN IF pid = NoPid THEN g
     ELSE [SigTerm(g, pid) EXCEPT !.killTimers = @ \cup {[src |-> "escalate", pids |-> {pid}]}]

\* A faulty pauseCaptureForSystem that records the pause as a user stop.
pauseCaptureAsUserStop(g) ==
  IF g.systemPaused THEN g
  ELSE LET g1 == Log([g EXCEPT !.systemPaused = TRUE,
                               !.userRequestedStop = TRUE], "lifecycle.paused")
           pid == readPid(g1)
       IN IF pid = NoPid THEN g1
          ELSE [SigTerm(g1, pid) EXCEPT !.killTimers = @ \cup {[src |-> "escalate", pids |-> {pid}]}]

\* pauseCaptureForSystem, lines 876-885
pauseCaptureForSystem(g) ==
  IF g.systemPaused THEN g
  ELSE LET g1 == Log([g EXCEPT !.systemPaused = TRUE], "lifecycle.paused")
           pid == readPid(g1)
       IN IF pid = NoPid THEN g1
          ELSE [SigTerm(g1, pid) EXCEPT !.killTimers = @ \cup {[src |-> "escalate", pids |-> {pid}]}]

\* resumeCaptureAfterSystem, lines 887-895
resumeCaptureAfterSystem(g) ==
  IF ~g.systemPaused THEN g
  ELSE LET g1 == Log([g EXCEPT !.systemPaused = FALSE], "lifecycle.resumed")
       IN IF readPid(g1) = NoPid /\ ~g1.userRequestedStop
            THEN Arm(g1, "resume")
            ELSE g1

\* ---------------------------------------------------------- status polling
HealthCooldown == 15
HeartbeatWindow == 30
StallWindow == 20
RegressionTolerance == 3
UnidentifiedLimit == 3

NoInstance == "none"
NoError == "none"

\* A parsed status record (the fields pollStatus reads).
StatusRecord(hasSeq, seq, inst, count, title, backend, error, duplicate) ==
  [kind |-> "json", hasSeq |-> hasSeq, seq |-> seq, inst |-> inst,
   count |-> count, title |-> title, backend |-> backend, error |-> error,
   duplicate |-> duplicate]

\* savePrefs(p), lines 846-849
savePrefs(g) == [g EXCEPT !.prefsFile = g.prefs]

\* A faulty HealthCounters that switches the backend again when the
\* preference is 'mss' already.
HealthCountersNoPrefCheck(g, data) ==
  IF data.error # NoError
    THEN
      LET g1 == IF data.error = "display"
                  THEN IF g.consecutiveDisplayErrors < MaxErrors
                         THEN Log([g EXCEPT !.consecutiveDisplayErrors = @ + 1], "health.display")
                         ELSE Overflow(g)
                  ELSE [g EXCEPT !.consecutiveDisplayErrors = 0]
      IN IF data.error = "unidentified" /\ data.backend = "imagegrab"
           THEN
             LET g2 == IF g1.consecutiveUnidentified < MaxErrors
                         THEN [g1 EXCEPT !.consecutiveUnidentified = @ + 1]
                         ELSE Overflow(g1)
             IN IF g2.consecutiveUnidentified = UnidentifiedLimit
                  THEN Arm(internalStopForHealth(
                             [savePrefs(Log([g2 EXCEPT !.prefs.backend = "mss"],
                                            "health.backendswitch"))
                                EXCEPT !.backendSwitchReason = TRUE]),
                           "backend")
                  ELSE g2
           ELSE IF data.error # "unidentified"
                  THEN [g1 EXCEPT !.consecutiveUnidentified = 0]
                  ELSE g1
    ELSE [g EXCEPT !.consecutiveDisplayErrors = 0,
                   !.lastSuccessfulStatus = g.now,
                   !.consecutiveUnidentified = 0]

\* lines 1132-1160: display-error and UnidentifiedImageError counters,
\* backend adaptation
HealthCounters(g, data) ==
  IF data.error # NoError
    THEN
      LET g1 == IF data.error = "display"
                  THEN IF g.consecutiveDisplayErrors < MaxErrors
                         THEN Log([g EXCEPT !.consecutiveDisplayErrors = @ + 1], "health.display")
                         ELSE Overflow(g)
                  ELSE [g EXCEPT !.consecutiveDisplayErrors = 0]
      IN IF data.error = "unidentified" /\ data.backend = "imagegrab"
           THEN
             LET g2 == IF g1.consecutiveUnidentified < MaxErrors
                         THEN [g1 EXCEPT !.consecutiveUnidentified = @ + 1]
                         ELSE Overflow(g1)
             IN IF g2.consecutiveUnidentified = UnidentifiedLimit /\ g2.prefs.backend # "mss"
                  THEN Arm(internalStopForHealth(
                             [savePrefs(Log([g2 EXCEPT !.prefs.backend = "mss"],
                                            "health.backendswitch"))
                                EXCEPT !.backendSwitchReason = TRUE]),
                           "backend")
                  ELSE g2
           ELSE IF data.error # "unidentified"
                  THEN [g1 EXCEPT !.consecutiveUnidentified = 0]
                  ELSE g1
    ELSE [g EXCEPT !.consecutiveDisplayErrors = 0,
                   !.lastSuccessfulStatus = g.now,
                   !.consecutiveUnidentified = 0]

\* A faulty BaselineReset that keeps the baseline of the previous instance.
BaselineResetNever(g, data) == g

\* lines 1164-1169: an instance change resets the sequence baseline
BaselineReset(g, data) ==
  IF /\ data.hasSeq
     /\ data.inst # NoInstance
     /\ g.lastServiceInstance # NoInstance
     /\ data.inst # g.lastServiceInstance
    THEN Log([g EXCEPT !.lastSequence = -1], "lifecycle.baselinereset")
    ELSE g

\* A faulty StaleKind that also drops a record repeating the last sequence.
StaleKindInclusive(g, data) ==
  IF data.hasSeq
    THEN IF g.lastSequence # -1 /\ data.seq <= g.lastSequence
           THEN "stale_seq" ELSE "fresh"
    ELSE IF g.lastSequence # -1 THEN "stale_legacy" ELSE "fresh"

\* A faulty StaleKind that lets a record without sequence through.
StaleKindLegacyAccepted(g, data) ==
  IF data.hasSeq /\ g.lastSequence # -1 /\ data.seq < g.lastSequence
    THEN "stale_seq" ELSE "fresh"

\* lines 1170-1177: which records are dropped as stale
StaleKind(g, data) ==
  IF data.hasSeq
    THEN IF g.lastSequence # -1 /\ data.seq < g.lastSequence
           THEN "stale_seq" ELSE "fresh"
    ELSE IF g.lastSequence # -1 THEN "stale_legacy" ELSE "fresh"

\* lines 1178-1188
NewInstance(g, data) ==
  IF data.inst # NoInstance /\ data.inst # g.lastInstanceId
    THEN scanForOtherCaptureProcesses(
           Log([g EXCEPT !.lastInstanceId = data.inst,
                         !.lastLoggedCaptureCount = -1,
                         !.lastLoggedError = NoError,
                         !.lastSequence = -1],
               "lifecycle.newinstance"),
           "log")
    ELSE g

\* lines 1189-1199
CaptureLog(g, data) ==
  IF data.count # g.lastLoggedCaptureCount
    THEN LET g1 == Log(g, "capture")
             g2 == IF /\ g1.lastInstanceId # NoInstance
                      /\ g1.lastLoggedCaptureCount # -1
                      /\ data.count < g1.lastLoggedCaptureCount - RegressionTolerance
                     THEN Log(g1, "anomaly.regressed")
                     ELSE g1
         IN [g2 EXCEPT !.lastLoggedCaptureCount = data.count]
    ELSE IF data.duplicate THEN Log(g, "duplicate") ELSE g

\* lines 1200-1204
SequenceAdvance(g, data) ==
  IF data.hasSeq /\ data.seq > g.lastSequence
    THEN [g EXCEPT !.lastSequence = data.seq,
                   !.lastSequenceTs = g.now,
                   !.lastServiceInstance =
                       IF data.inst # NoInstance THEN data.inst ELSE @]
    ELSE g

\* lines 1205-1211: !data.sequence holds for a missing sequence and for 0
LegacyOverwrite(g, data) ==
  IF (~data.hasSeq \/ data.seq = 0) /\ g.lastInstanceId # NoInstance
    THEN scanForOtherCaptureProcesses(Log(g, "anomaly.legacy"), "log")
    ELSE g

\* lines 1218-1222
ErrorLog(g, data) ==
  IF data.error # g.lastLoggedError
    THEN LET g1 == IF data.error # NoError THEN Log(g, "error")
                   ELSE IF g.lastLoggedError # NoError THEN Log(g, "recovery")
                   ELSE g
         IN [g1 EXCEPT !.lastLoggedError = data.error]
    ELSE g

\* lines 1224-1229
Heartbeat(g) ==
  IF g.now - g.lastHeartbeat > HeartbeatWindow
    THEN Log([g EXCEPT !.lastHeartbeat = g.now], "heartbeat")
    ELSE g

\* A faulty HealthRestart that waits for three display errors even before
\* the first error-free status.
HealthRestartFixedThreshold(g) ==
  IF /\ ~g.userRequestedStop
     /\ ~g.systemPaused
     /\ g.consecutiveDisplayErrors >= 3
     /\ g.now - g.lastHealthRestart > HealthCooldown
    THEN [SetRestartTimer(ClearRestartTimer(
              internalStopForHealth(Log(g, "health.restart"))))
            EXCEPT !.lastHealthRestart = g.now,
                   !.consecutiveDisplayErrors = 0]
    ELSE g

\* lines 1230-1241
HealthRestart(g) ==
  LET threshold == IF g.lastSuccessfulStatus = 0 THEN 1 ELSE 3
  IN IF /\ ~g.userRequestedStop
        /\ ~g.systemPaused
        /\ g.consecutiveDisplayErrors >= threshold
        /\ g.now - g.lastHealthRestart > HealthCooldown
       THEN [SetRestartTimer(ClearRestartTimer(
                 internalStopForHealth(Log(g, "health.restart"))))
               EXCEPT !.lastHealthRestart = g.now,
                      !.consecutiveDisplayErrors = 0]
       ELSE g

\* broadcast('status:update', data), line 1130 and lines 1372-1384: the
\* record is sent to every open window
BroadcastStatus(g, data) ==
  IF g.windowOpen THEN [g EXCEPT !.out.status = @ \cup {data}] ELSE g

\* History of duplicate-frame records: a record with duplicate === true and
\* an unchanged capture_count extends the run (n counts the records that
\* are new by their sequence, logs the '[duplicate]' lines of line 1198);
\* any other accepted record ends it.
DuplicateRun(g, data) ==
  IF data.duplicate /\ data.count = g.lastLoggedCaptureCount
    THEN IF g.dupRun.logs < MaxDupLogs
           THEN [g EXCEPT !.dupRun =
                   [n |-> @.n + (IF data.hasSeq /\ data.seq > g.lastSequence THEN 1 ELSE 0),
                    logs |-> @.logs + 1]]
           ELSE Overflow(g)
    ELSE [g EXCEPT !.dupRun = [n |-> 0, logs |-> 0]]

\* out.poll is the outcome of the poll, out.base the sequence baseline the
\* poll started from
Polled(g, result, base) == [g EXCEPT !.out.poll = result, !.out.base = base]

\* pollStatus, lines 1126-1244.  The timer that ran it is consumed; the
\* setTimeout of line 1243 is reached unless the function returned earlier.
pollStatus(g) ==
  LET data == g.statusFile
      fired == [g EXCEPT !.pollScheduled = FALSE]
  IN IF data.kind # "json"
       THEN \* readFileSync or JSON.parse throws: catch, then line 1243
            Polled([fired EXCEPT !.pollScheduled = TRUE], "unreadable", g.lastSequence)
       ELSE
         LET g1 == BroadcastStatus(fired, data)
             g2 == BaselineReset(HealthCounters(g1, data), data)
             stale == StaleKind(g2, data)
         IN IF stale # "fresh"
              THEN Polled(Log(g2, "stale"), stale, g.lastSequence)
              ELSE
                LET g3 == ErrorLog(LegacyOverwrite(SequenceAdvance(
                            CaptureLog(DuplicateRun(NewInstance(g2, data), data), data),
                            data), data), data)
                    g4 == HealthRestart(Heartbeat(g3))
                IN Polled([g4 EXCEPT !.pollScheduled = TRUE,
                                     !.seqObserved = @ \/ data.hasSeq,
                                     !.stallCycles =
                                        IF data.hasSeq
                                             /\ data.seq > NewInstance(g2, data).lastSequence
                                          THEN 0 ELSE @],
                          "accepted", g.lastSequence)

\* stall detector, lines 1248-1256
stallDetector(g) ==
  IF readPid(g) = NoPid THEN g
  ELSE IF /\ ~g.systemPaused
          /\ g.lastSequence # -1
          /\ g.now - g.lastSequenceTs > StallWindow
         THEN IF g.stallCycles < MaxStallCycles
                THEN Arm(internalStopForHealth(
                           Log([g EXCEPT !.stallCycles = @ + 1], "health.stalled")),
                         "stall")
                ELSE Overflow(g)
         ELSE g

\* -------------------------------------------------------------- key manager
\* python -m capture.keymgr and capture.encryption, the helpers behind every
\* spawnSync of the prompt loop, of auth:change and of the unlock server.
\* The state of the key manager is its files under data/: the passphrase
\* the wrapped key is wrapped under, and the lockout state.
Passphrases == {"p1", "p2"}
NoSecret == "none"
DataKey == "key"
RecoveryToken == "recovery"
NoLock == 0
MaxFailures == 3
LockThreshold == 2

\* LockoutPolicy: the seconds of lock that a failure count earns
LockSeconds(n) == IF n < LockThreshold THEN 0 ELSE n - LockThreshold + 1

LockedOut(k, t) == k.lock_until > t

\* --lock-info: a snapshot of the lockout state
lockInfo(k) ==
  [consecutive_failures |-> k.consecutive_failures, lock_until |-> k.lock_until]

\* --validate: exit status and the key manager's state afterwards
validate(k, p, t) ==
  IF LockedOut(k, t) THEN [status |-> "4", k |-> k]
  ELSE IF p = k.wrap
    THEN [status |-> "0",
          k |-> [k EXCEPT !.consecutive_failures = 0, !.lock_until = NoLock]]
    ELSE [status |-> "1", k |-> k]

\* --create: a passphrase that fails the complexity policy is rejected
create(k, p, complex) ==
  IF ~complex THEN [status |-> "3", k |-> k]
  ELSE [status |-> "0", k |-> [k EXCEPT !.wrap = p]]

\* A faulty policy that starts the count again when it locks.
recordFailureResets(k, t) ==
  IF LockSeconds(k.consecutive_failures + 1) > 0
    THEN [k EXCEPT !.consecutive_failures = 0,
                   !.lock_until = t + LockSeconds(k.consecutive_failures + 1)]
    ELSE [k EXCEPT !.consecutive_failures = @ + 1]

\* --record-fail: one more failure, and the lock it earns from now
recordFailure(k, t) ==
  [k EXCEPT !.consecutive_failures = @ + 1,
            !.lock_until = IF LockSeconds(k.consecutive_failures + 1) > 0
                             THEN t + LockSeconds(k.consecutive_failures + 1)
                             ELSE @]

\* --change [--use-recovery]: re-wraps the data key under the new secret
change(k, old, new, useRecovery, complex) ==
  IF (IF useRecovery THEN old # RecoveryToken ELSE old # k.wrap)
    THEN [status |-> "1", k |-> k]
  ELSE IF ~complex THEN [status |-> "3", k |-> k]
  ELSE [status |-> "0", k |-> [k EXCEPT !.wrap = new]]

\* unwrap_key_with_passphrase over data/encrypted/key.fernet.pass
unwrap(k, secret) == IF k.wrap # NoSecret /\ secret = k.wrap THEN "0" ELSE "1"

\* ------------------------------------------------------------ startup flow

\* createWindow (lines 1627-1650) as called by the startup flow
createWindow(g) ==
  IF g.needPassGlobal /\ ~g.unlockedUI THEN g
  ELSE [g EXCEPT !.windowOpen = TRUE]

\* lines 1847-1858: the tail of the startup flow, after the unlock step
StartupTail(g, oc) ==
  LET g1 == IF ~g.autostartMode THEN createWindow(g) ELSE g
      g2 == [g1 EXCEPT !.flow = "ready"]
  IN IF ~g2.needPass \/ g2.unlockedSuccessfully
       THEN startDetached(g2, "startup", FALSE, oc)
       ELSE Log(g2, "lifecycle.startdeferred")

\* app.whenReady callback up to the first await (lines 1667-1713, 1800-1846)
AppReady ==
  /\ flow = "load"
  /\ \E autostartKey \in BOOLEAN :  \* keymgr --get-autostart yields a raw key
       LET g1 == [G EXCEPT !.needPassGlobal = needPass]
       IN IF autostartMode /\ autostartKey
            THEN Commit([g1 EXCEPT !.flow = "rawListen"])
            ELSE Commit([g1 EXCEPT !.flow = "modal"])

\* the listen callback of the raw-mode unlock server and the continuation
\* of the startup flow (lines 1817-1829, 1919-1939)
RawServerListening ==
  /\ flow = "rawListen"
  /\ \E ok \in BOOLEAN, oc \in SpawnOutcomes :
       IF ok
         THEN Commit(StartupTail(Log([G EXCEPT !.unlockServer = "raw",
                                               !.serverSecret = DataKey,
                                               !.unlockedSuccessfully = TRUE,
                                               !.keyProduced = TRUE],
                                     "auth.rawunlocked"), oc))
         ELSE /\ oc = "ok"
              /\ Commit(Log([G EXCEPT !.flow = "modal"], "auth.rawfailed"))

\* lines 1777-1792: the failure is recorded when the helper runs
RecordFail(g, spawned) ==
  IF ~spawned THEN g
  ELSE IF g.keymgr.consecutive_failures < MaxFailures
    THEN Log([g EXCEPT !.keymgr = recordFailure(@, g.now)], "auth.lockupdate")
    ELSE Overflow(g)

\* A faulty loop that records a failure after every rejection.
promptLoopCountsAll(g, probe, cancel, p, complex, spawned, rf) ==
  IF probe /\ lockInfo(g.keymgr).lock_until > g.now THEN Log(g, "auth.locked")
  ELSE IF cancel THEN g
  ELSE IF ~spawned THEN Log([g EXCEPT !.out.helper = @ \cup {"error"}], "auth.helpererror")
  ELSE
    LET res == IF g.needPass THEN validate(g.keymgr, p, g.now)
                             ELSE create(g.keymgr, p, complex)
        g1 == [g EXCEPT !.out.helper = @ \cup {res.status}, !.keymgr = res.k]
    IN IF res.status = "0"
         THEN Log([g1 EXCEPT !.keyProduced = TRUE, !.pass = p,
                             !.flow = IF ~g.needPass THEN "recovery" ELSE "listen"],
                  "auth.accepted")
       ELSE RecordFail(Log(g1, "auth.invalid"), TRUE)

\* A faulty loop that reports the lock and prompts all the same.
promptLoopIgnoresLock(g, probe, cancel, p, complex, spawned, rf) ==
  LET g0 == IF probe /\ lockInfo(g.keymgr).lock_until > g.now
              THEN Log(g, "auth.locked") ELSE g
  IN IF cancel THEN g0
     ELSE IF ~spawned
       THEN Log([g0 EXCEPT !.out.helper = @ \cup {"error"}], "auth.helpererror")
     ELSE
       LET res == IF g.needPass THEN validate(g.keymgr, p, g.now)
                                ELSE create(g.keymgr, p, complex)
           g1 == [g0 EXCEPT !.out.helper = @ \cup {res.status}, !.keymgr = res.k]
       IN IF res.status = "0"
            THEN Log([g1 EXCEPT !.keyProduced = TRUE, !.pass = p,
                                !.flow = IF ~g.needPass THEN "recovery" ELSE "listen"],
                     "auth.accepted")
          ELSE IF res.status = "3" THEN Log(g1, "auth.complexity")
          ELSE IF res.status = "1" THEN RecordFail(Log(g1, "auth.invalid"), rf)
          ELSE Log(g1, "auth.invalid")

\* One iteration of the prompt loop (lines 1677-1796).  probe, spawned and
\* rf tell whether the spawnSync of --lock-info, of --create / --validate
\* and of --record-fail runs the helper; the user cancels the modal or
\* submits p, which meets the complexity policy or not.
promptLoop(g, probe, cancel, p, complex, spawned, rf) ==
  IF probe /\ lockInfo(g.keymgr).lock_until > g.now THEN Log(g, "auth.locked")
  ELSE IF cancel THEN g
  ELSE IF ~spawned THEN Log([g EXCEPT !.out.helper = @ \cup {"error"}], "auth.helpererror")
  ELSE
    LET res == IF g.needPass THEN validate(g.keymgr, p, g.now)
                             ELSE create(g.keymgr, p, complex)
        g1 == [g EXCEPT !.out.helper = @ \cup {res.status}, !.keymgr = res.k]
    IN IF res.status = "0"
         THEN Log([g1 EXCEPT !.keyProduced = TRUE, !.pass = p,
                             !.flow = IF ~g.needPass THEN "recovery" ELSE "listen"],
                  "auth.accepted")
       ELSE IF res.status = "3" THEN Log(g1, "auth.complexity")
       ELSE IF res.status = "1" THEN RecordFail(Log(g1, "auth.invalid"), rf)
       ELSE Log(g1, "auth.invalid")

\* the passphrase modal answers, or the loop finds the key manager locked
PromptSubmit ==
  /\ flow = "modal"
  /\ \E probe \in BOOLEAN, cancel \in BOOLEAN, p \in Passphrases, complex \in BOOLEAN,
        spawned \in BOOLEAN, rf \in BOOLEAN :
       \* an input that the iteration does not read is left at one value
       /\ (cancel \/ (probe /\ LockedOut(keymgr, now))) => (p = "p1" /\ spawned)
       /\ (cancel \/ ~spawned \/ needPass) => complex
       /\ (cancel \/ ~spawned \/ ~needPass) => rf
       /\ Commit(promptLoop(G, probe, cancel, p, complex, spawned, rf))

\* the recovery-token modal is acknowledged (line 1738)
RecoverySaved ==
  /\ flow = "recovery"
  /\ Commit([G EXCEPT !.flow = "listen"])

\* A faulty prompt loop that marks the session unlocked and starts the
\* worker before it knows whether the unlock server listens.
ServerListeningStartsFirst ==
  /\ flow = "listen"
  /\ \E ok \in BOOLEAN, oc1 \in SpawnOutcomes, oc2 \in SpawnOutcomes :
       LET wasLocked == needPassGlobal /\ ~unlockedSuccessfully
           g1 == [G EXCEPT !.pass = NoSecret,
                           !.unlockedSuccessfully = TRUE,
                           !.unlockedUI = TRUE]
           g2 == IF wasLocked /\ readPid(g1) = NoPid
                   THEN startDetached(Log(g1, "lifecycle.startunlocked"),
                                      "unlock", FALSE, oc1)
                   ELSE g1
       IN /\ (~(wasLocked /\ readPid(g1) = NoPid) => oc1 = "ok")
          /\ IF ok
               THEN Commit(StartupTail([g2 EXCEPT !.unlockServer = "pass",
                                                  !.serverSecret = pass], oc2))
               ELSE /\ oc2 = "ok"
                    /\ Commit(Log([g2 EXCEPT !.flow = "modal"], "auth.serverfailed"))

\* the listen callback of the passphrase-mode unlock server, the rest of
\* the prompt loop and the continuation of the startup flow
\* (lines 1743-1767, 1847-1858)
ServerListening ==
  /\ flow = "listen"
  /\ \E ok \in BOOLEAN, oc1 \in SpawnOutcomes, oc2 \in SpawnOutcomes :
       IF ~ok
         THEN /\ oc1 = "ok" /\ oc2 = "ok"
              /\ Commit(Log([G EXCEPT !.flow = "modal", !.pass = NoSecret],
                            "auth.serverfailed"))
         ELSE LET wasLocked == needPassGlobal /\ ~unlockedSuccessfully
                  g1 == [G EXCEPT !.unlockServer = "pass",
                                  !.serverSecret = pass,
                                  !.pass = NoSecret,
                                  !.unlockedSuccessfully = TRUE,
                                  !.unlockedUI = TRUE]
                  g2 == IF wasLocked /\ readPid(g1) = NoPid
                          THEN startDetached(Log(g1, "lifecycle.startunlocked"),
                                             "unlock", FALSE, oc1)
                          ELSE g1
              IN /\ (~(wasLocked /\ readPid(g1) = NoPid) => oc1 = "ok")
                 /\ Commit(StartupTail(g2, oc2))

\* ------------------------------------------------------------------ logger
\* frontend/logging.js: the singleton logger, made with a broadcast function
\* and a getPrefs that returns the preferences object; the file system
\* accepts every write.  A line is the text after the timestamp, by its
\* three parts; _recent is kept as its length and its newest entry.
LEVEL_ORDER == <<"TRACE", "DEBUG", "INFO", "WARNING", "ERROR", "CRITICAL">>
RECENT_MAX == 500

Categories == {"heartbeat", "capture", "error"}
Messages == {"saved", "retry"}

\* String.prototype.toUpperCase on the level names above
toUpperCase(s) ==
  CASE s = "trace" -> "TRACE"
    [] s = "debug" -> "DEBUG"
    [] OTHER -> s

\* A faulty levelIndex that ranks an unknown level below every known one.
levelIndexUnknownLowest(l) ==
  LET u == toUpperCase(IF l = "" THEN "INFO" ELSE l)
  IN IF \E i \in 1..Len(LEVEL_ORDER) : LEVEL_ORDER[i] = u
       THEN (CHOOSE i \in 1..Len(LEVEL_ORDER) : LEVEL_ORDER[i] = u) - 1
       ELSE -1

\* levelIndex, line 97
levelIndex(l) ==
  LET u == toUpperCase(IF l = "" THEN "INFO" ELSE l)
  IN IF \E i \in 1..Len(LEVEL_ORDER) : LEVEL_ORDER[i] = u
       THEN (CHOOSE i \in 1..Len(LEVEL_ORDER) : LEVEL_ORDER[i] = u) - 1
       ELSE 2

\* deriveLevelFromCategory, lines 52-65, on the categories and messages
\* above: "retry" matches \b(degraded|retry|slow)\b, no message holds the
\* word error or traceback
deriveLevelFromCategory(category, line) ==
  IF category = "error" THEN "ERROR"
  ELSE IF line = "retry" THEN "WARNING"
  ELSE IF category = "heartbeat" THEN "TRACE"
  ELSE "INFO"

\* logger(category, message, levelOverride), lines 126-142; "" is a
\* missing levelOverride.  out.log is what the call returned, appended to
\* the log file and broadcast on 'log:line'.
logger(g, category, message, levelOverride) ==
  LET rawMsg == message
      derivedLevel == toUpperCase(IF levelOverride # "" THEN levelOverride
                                  ELSE deriveLevelFromCategory(category, rawMsg))
      threshold == toUpperCase(IF g.logLevel # "" THEN g.logLevel ELSE "INFO")
      lineNoTs == [level |-> derivedLevel, category |-> category, msg |-> rawMsg]
  IN IF levelIndex(derivedLevel) < levelIndex(threshold)
       THEN [g EXCEPT !.out.log = {[ret |-> {}, file |-> {}, sent |-> {}]}]
       ELSE [g EXCEPT !.recent = [len |-> IF @.len + 1 > RECENT_MAX
                                            THEN RECENT_MAX ELSE @.len + 1,
                                  newest |-> {lineNoTs}],
                      !.out.log = {[ret |-> {lineNoTs}, file |-> {lineNoTs},
                                    sent |-> {lineNoTs}]}]

\* a call of the logger
Logger ==
  \E category \in Categories, message \in Messages, levelOverride \in {"", "debug", "NOTICE"} :
    Commit(logger(G, category, message, levelOverride))

\* logger.setLevel(lvl), lines 143-145
SetLevel ==
  \E lvl \in {"trace", "WARNING", "CRITICAL", "NOTICE"} :
    /\ toUpperCase(lvl) # logLevel
    /\ Commit([G EXCEPT !.logLevel = toUpperCase(lvl)])

\* -------------------------------------------------- concurrent prompt loops
\* _promptAndValidateBlocking is also started, without being awaited, by a
\* second-instance event (line 755) and by createWindow (line 1632), and by
\* a tray click (lines 788, 804): one such loop is followed next to the
\* loop of the startup flow.  Every loop that waits in
\* promptForPassphraseModal has its own ipcMain.once listener on
\* 'auth:submit-window' (line 2017), and one message on the channel runs
\* them all, in the order in which they were registered.
\* the continuation of the second loop: promptLoop with loop2 as position
secondLoop(g, cancel, p, spawned, rf) ==
  LET h == promptLoop([g EXCEPT !.flow = "modal", !.pass = NoSecret],
                      FALSE, cancel, p, TRUE, spawned, rf)
  IN [h EXCEPT !.flow = g.flow, !.pass = g.pass,
               !.loop2 = [at |-> h.flow, pass |-> h.pass]]

\* ipcMain emits 'auth:submit-window' (lines 2012-2020): the loops that
\* wait in the modal continue with the submitted value (lines 1714-1796),
\* one after the other; loops that found the key manager locked (lines
\* 1680-1704) have no modal
submitWindow(g, probe, cancel, p, spA, rfA, spB, rfB) ==
  IF probe /\ lockInfo(g.keymgr).lock_until > g.now THEN Log(g, "auth.locked")
  ELSE LET g1 == IF g.flow = "modal"
                   THEN promptLoop(g, FALSE, cancel, p, TRUE, spA, rfA)
                   ELSE g
       IN IF g.loop2.at = "modal" THEN secondLoop(g1, cancel, p, spB, rfB) ELSE g1

\* the user answers a passphrase modal of a protected session
SubmitWindow ==
  /\ needPass
  /\ flow = "modal" \/ loop2.at = "modal"
  /\ \E probe \in BOOLEAN, cancel \in BOOLEAN, p \in Passphrases,
        spA \in BOOLEAN, rfA \in BOOLEAN, spB \in BOOLEAN, rfB \in BOOLEAN :
       \* an input that the handler does not read is left at one value
       /\ (cancel \/ (probe /\ LockedOut(keymgr, now))) =>
             (p = "p1" /\ spA /\ rfA /\ spB /\ rfB)
       /\ flow # "modal" => (spA /\ rfA)
       /\ loop2.at # "modal" => (spB /\ rfB)
       /\ ~spA => rfA
       /\ ~spB => rfB
       /\ Commit(submitWindow(G, probe, cancel, p, spA, rfA, spB, rfB))

\* app.on('second-instance'), lines 748-770
SecondInstance ==
  /\ flow # "load"
  /\ IF needPassGlobal /\ ~unlockedUI
       THEN /\ loop2.at = "none"
            /\ Commit([G EXCEPT !.loop2.at = "modal"])
       ELSE Commit(createWindow(G))

\* the listen callback of the unlock server that the second loop started,
\* and the rest of that loop (lines 1743-1766)
LoopServerListening ==
  /\ loop2.at = "listen"
  /\ \E ok \in BOOLEAN, oc \in SpawnOutcomes :
       IF ~ok
         THEN /\ oc = "ok"
              /\ Commit(Log([G EXCEPT !.loop2 = [at |-> "modal", pass |-> NoSecret]],
                            "auth.serverfailed"))
         ELSE LET wasLocked == needPassGlobal /\ ~unlockedSuccessfully
                  g1 == [G EXCEPT !.unlockServer = "pass",
                                  !.serverSecret = loop2.pass,
                                  !.loop2 = [at |-> "none", pass |-> NoSecret],
                                  !.unlockedSuccessfully = TRUE,
                                  !.unlockedUI = TRUE]
              IN IF wasLocked /\ readPid(g1) = NoPid
                   THEN Commit(startDetached(Log(g1, "lifecycle.startunlocked"),
                                             "unlock", FALSE, oc))
                   ELSE oc = "ok" /\ Commit(g1)

\* ------------------------------------------------------------ unlock server
\* A request line: whether it parses as JSON, its token and its action.
Requests ==
  [wellFormed : BOOLEAN, token : {"issued", "never"}, action : {"get_key", "other"}]

\* What the unwrap helper of the passphrase mode answers (exit status;
\* "error" is a failure to run it).
UnwrapResults == {"0", "1", "error"}

ReplyBadJson == [status |-> "error", msg |-> "bad_json"]
ReplyInvalid == [status |-> "error", msg |-> "invalid_token_or_action"]
ReplyKey == [status |-> "ok", key_b64 |-> "key"]
ReplyHelper(res) == [status |-> "error", msg |-> res]

\* sock.end(JSON.stringify(reply) + '\n')
Reply(g, req, reply) ==
  [g EXCEPT !.out.reqs = @ \cup {req}, !.out.replies = @ \cup {reply}]

\* A faulty connection handler that tells a wrong token from a wrong action.
unlockRequestDistinctErrors(g, req, res) ==
  IF ~req.wellFormed THEN Reply(g, req, ReplyBadJson)
  ELSE IF req.token # "issued"
    THEN Reply(g, req, [status |-> "error", msg |-> "invalid_token"])
  ELSE IF req.action # "get_key"
    THEN Reply(g, req, [status |-> "error", msg |-> "invalid_action"])
  ELSE IF g.unlockServer = "raw"
    THEN [Reply(g, req, [ReplyKey EXCEPT !.key_b64 = g.serverSecret])
            EXCEPT !.unlockedSuccessfully = TRUE]
  ELSE IF res = "0"
    THEN [Reply(Log(g, "auth.unwrap"), req, ReplyKey) EXCEPT !.unlockedSuccessfully = TRUE]
    ELSE Reply(Log(g, "auth.unwrap"), req, ReplyHelper(res))

\* the connection handler of the unlock server, lines 1869-1915
unlockRequest(g, req, res) ==
  IF ~req.wellFormed THEN Reply(g, req, ReplyBadJson)
  ELSE IF req.token # "issued" \/ req.action # "get_key"
    THEN Reply(g, req, ReplyInvalid)
  ELSE IF g.unlockServer = "raw"
    THEN [Reply(g, req, [ReplyKey EXCEPT !.key_b64 = g.serverSecret])
            EXCEPT !.unlockedSuccessfully = TRUE]
  ELSE IF res = "0"
    THEN [Reply(Log(g, "auth.unwrap"), req, ReplyKey) EXCEPT !.unlockedSuccessfully = TRUE]
    ELSE Reply(Log(g, "auth.unwrap"), req, ReplyHelper(res))

\* a client sends a request line to the listening unlock server; the
\* unwrap helper of the passphrase mode runs or fails to run
UnlockRequest ==
  /\ unlockServer # "none"
  /\ \E req \in Requests, res \in UnwrapResults :
       /\ res \in {unwrap(keymgr, serverSecret), "error"}
       /\ (~req.wellFormed \/ req.token # "issued" \/ req.action # "get_key"
              \/ unlockServer = "raw") => res = "error"
       /\ Commit(unlockRequest(G, req, res))

\* Connections that deliver the request line in chunks.  A chunk is a whole
\* line, or the head of a line (no newline in it), or its tail.
Chunks(req) ==
  {<<[req |-> req, part |-> "whole"]>>,
   <<[req |-> req, part |-> "head"], [req |-> req, part |-> "tail"]>>}

\* buf.indexOf('\n') !== -1
HasNewline(buf) == \E i \in 1..Len(buf) : buf[i].part # "head"

\* what is not one line of JSON does not parse
BadLine == [wellFormed |-> FALSE, token |-> "never", action |-> "other"]

\* JSON.parse(buf)
Parse(buf) ==
  IF Len(buf) = 1 /\ buf[1].part = "whole" THEN buf[1].req
  ELSE IF /\ Len(buf) = 2 /\ buf[1].part = "head" /\ buf[2].part = "tail"
          /\ buf[1].req = buf[2].req
    THEN buf[1].req
    ELSE BadLine

\* A faulty server that keeps one buffer for all its connections.
socketDataShared(g, c, chunk, res) ==
  LET buf == Append(g.socks[1].buf, chunk)
      g1 == [g EXCEPT !.socks[1].buf = buf]
  IN IF ~HasNewline(buf) THEN g1
     ELSE [unlockRequest(g1, Parse(buf), res) EXCEPT !.socks[c].state = "ended"]

\* sock.on('data') of connection c, lines 1870-1915: the buffer is the one
\* of the connection; every reply ends the connection
socketData(g, c, chunk, res) ==
  LET buf == Append(g.socks[c].buf, chunk)
      g1 == [g EXCEPT !.socks[c].buf = buf]
  IN IF ~HasNewline(buf) THEN g1
     ELSE [unlockRequest(g1, Parse(buf), res) EXCEPT !.socks[c].state = "ended"]

\* a client connects and will send one request line, in one or two chunks
Connect ==
  /\ unlockServer # "none"
  /\ \E c \in Conns, req \in Requests :
       /\ socks[c].state = "closed"
       /\ \E chunks \in Chunks(req) :
            Commit([GE EXCEPT !.socks[c] =
                      [state |-> "open", buf |-> <<>>, pend |-> chunks, sent |-> {req}]])

\* the next chunk of a connection arrives
SocketData ==
  \E c \in Conns, res \in UnwrapResults :
    /\ socks[c].state = "open"
    /\ socks[c].pend # <<>>
    /\ res \in {unwrap(keymgr, serverSecret), "error"}
    /\ Commit(socketData([G EXCEPT !.socks[c].pend = Tail(@)], c, Head(socks[c].pend), res))

\* ------------------------------------------------------- control surface
Started == flow # "load"

\* tray 'Start Capture' / ipc capture:start (lines 793, 1558)
UserStart ==
  /\ flow = "ready"
  /\ \E oc \in SpawnOutcomes :
       Commit(startDetached([G EXCEPT !.stopAsked = "no"], "user", TRUE, oc))

\* tray 'Stop Capture' / ipc capture:stop (lines 793, 1559)
UserStop ==
  /\ flow = "ready"
  /\ Commit(stopDetached(
       [G EXCEPT !.stopAsked = IF systemPaused THEN "paused" ELSE "running"]))

\* ipc prefs:set (lines 1535-1548)
PrefsSet ==
  /\ windowOpen
  /\ \E changed \in BOOLEAN :  \* newPrefs changes interval or logLevel
       IF changed
         THEN Commit(Arm(stopDetached(G), "prefs"))
         ELSE Commit(G)

\* ipc data:purge (lines 1562-1586): wipeDir(data/encrypted) spares
\* key.fernet only, so the wrapped key key.fernet.pass is unlinked
dataPurge(g) ==
  Log([stopDetached(g) EXCEPT !.statusFile = StatusAbsent,
                              !.pidFile = NoPid,
                              !.keymgr.wrap = NoSecret],
      "control.purge")

DataPurge ==
  /\ windowOpen
  /\ Commit(dataPurge(G))

\* the value an ipcMain.handle callback returns to the renderer
IpcResult(g, result) == [g EXCEPT !.out.ipc = @ \cup {result}]

\* ipc auth:change (lines 1587-1608); spawned tells whether spawnSync runs
\* the helper, "" is a missing field of the payload
authChange(g, auth, next, useRecovery, complex, spawned) ==
  IF auth = "" \/ next = "" THEN IpcResult(g, [ok |-> FALSE, err |-> "missing_fields"])
  ELSE IF ~spawned THEN IpcResult(g, [ok |-> FALSE, err |-> "error"])
  ELSE LET res == change(g.keymgr, auth, next, useRecovery, complex)
       IN IF res.status = "0"
            THEN IpcResult([g EXCEPT !.keymgr = res.k], [ok |-> TRUE, err |-> ""])
            ELSE IpcResult(g, [ok |-> FALSE, err |-> res.status])

AuthChange ==
  /\ windowOpen
  /\ \E auth \in Passphrases \cup {RecoveryToken, ""}, next \in Passphrases \cup {""},
        useRecovery \in BOOLEAN, complex \in BOOLEAN, spawned \in BOOLEAN :
       \* an input that the handler does not read is left at one value
       /\ (auth = "" \/ next = "") => (auth = next /\ spawned /\ ~useRecovery)
       /\ ~spawned => (auth = "p1" /\ next = "p1" /\ ~useRecovery)
       /\ (auth = "" \/ ~spawned) => complex
       /\ Commit(authChange(G, auth, next, useRecovery, complex, spawned))

\* powerMonitor lock-screen / session-lock / suspend / shutdown (lines 1958-1967)
SystemPause ==
  /\ Started
  /\ Commit(pauseCaptureForSystem(G))

\* powerMonitor unlock-screen / session-unlock / resume
SystemResume ==
  /\ Started
  /\ Commit(resumeCaptureAfterSystem(G))

\* The causes of a system pause that can overlap: the screen lock
\* (powerMonitor lock-screen / session-lock, or the lock polling of lines
\* 948-958) and the suspend.

\* a cause begins: its event handler calls pauseCaptureForSystem(kind)
PauseEvent ==
  /\ Started
  /\ \E kind \in {"lock", "suspend"} :
       /\ kind \notin pauseCauses
       /\ Commit(pauseCaptureForSystem([G EXCEPT !.pauseCauses = @ \cup {kind}]))

\* a cause ends: its event handler calls resumeCaptureAfterSystem(kind)
ResumeEvent ==
  /\ Started
  /\ \E kind \in {"lock", "suspend"} :
       /\ kind \in pauseCauses
       /\ Commit(resumeCaptureAfterSystem([G EXCEPT !.pauseCauses = @ \ {kind}]))

\* ------------------------------------------------------------------ timers
\* periodic monitor, lines 1944-1950
Monitor ==
  /\ Started
  /\ \E oc \in SpawnOutcomes :
       IF unlockedSuccessfully /\ ~userRequestedStop /\ readPid(G) = NoPid
         THEN Commit(startDetached(G, "monitor", FALSE, oc))
         ELSE oc = "ok" /\ Commit(G)

\* line 1237: the health restart timeout
HealthTimerFire ==
  /\ healthTimers > 0
  /\ \E oc \in SpawnOutcomes :
       LET g1 == [G EXCEPT !.healthTimers = @ - 1, !.pendingRestartTimer = FALSE]
       IN IF ~userRequestedStop
            THEN Commit(startDetached(g1, "health", FALSE, oc))
            ELSE oc = "ok" /\ Commit(g1)

\* lines 1150 and 1254: the backend-switch and stall restart timeouts
RestartTimerFire ==
  \E kind \in {"stall", "backend"}, oc \in SpawnOutcomes :
    /\ timers[kind] > 0
    /\ IF ~userRequestedStop
         THEN Commit(startDetached(Disarm(G, kind), kind, FALSE, oc))
         ELSE oc = "ok" /\ Commit(Disarm(G, kind))

\* line 893: the resume timeout
ResumeTimerFire ==
  /\ timers["resume"] > 0
  /\ \E oc \in SpawnOutcomes :
       IF readPid(G) = NoPid /\ ~userRequestedStop
         THEN Commit(startDetached(Disarm(G, "resume"), "resume", FALSE, oc))
         ELSE oc = "ok" /\ Commit(Disarm(G, "resume"))

\* line 1545: the restart timeout of prefs:set
PrefsTimerFire ==
  /\ timers["prefs"] > 0
  /\ \E oc \in SpawnOutcomes :
       Commit(startDetached(Disarm(G, "prefs"), "prefs", FALSE, oc))

\* line 1083: the pid-file verification timeout
VerifyTimerFire ==
  /\ timers["verify"] > 0
  /\ LET g1 == Disarm(G, "verify")
     IN IF readPid(g1) = NoPid
          THEN Commit(Log(g1, "anomaly.nopidfile"))
          ELSE Commit([g1 EXCEPT !.spawnInFlight = FALSE])

\* SIGKILL escalation timeouts (lines 883, 1022-1026, 1107-1113, 1624)
KillTimerFire ==
  \E t \in killTimers :
    LET g1 == [G EXCEPT !.killTimers = @ \ {t}]
        pid == CHOOSE q \in t.pids : TRUE
    IN IF t.src = "stray"
         THEN \* every listed pid that still answers kill(pid, 0)
              Commit([g1 EXCEPT !.proc = [w \in Workers |->
                        IF w \in t.pids /\ g1.proc[w] = "alive" THEN "zombie" ELSE @[w]]])
         ELSE \* escalation of stop / health stop / pause: only if the
              \* pid file still names the same live process
              IF readPid(g1) = pid
                THEN Commit(SigKill(g1, pid))
                ELSE Commit(g1)

\* the timer of pollStatus (lines 1243, 1245)
PollStatus ==
  /\ Started
  /\ pollScheduled
  /\ Commit(pollStatus(G))

\* the 5 s stall detector interval
StallDetector ==
  /\ Started
  /\ Commit(stallDetector(G))

\* captureProc.on('exit'), lines 1071-1077: the dead child is reaped
ChildExit ==
  \E w \in Workers :
    /\ proc[w] = "zombie"
    /\ Commit(Log([G EXCEPT !.proc[w] = "reaped",
                            !.spawnInFlight = FALSE,
                            !.captureProc = NoPid],
                  "anomaly.exited"))

\* `ps` reads the process table
PsList ==
  \E i \in 1..Len(scans) :
    /\ ~scans[i].taken
    /\ Commit([GE EXCEPT !.scans[i].taken = TRUE,
                          !.scans[i].pids = {w \in Workers : proc[w] = "alive"}])

\* ps.on('close') with the pre-start purge callback (lines 967-986, 1017-1028)
ScanClose ==
  \E i \in 1..Len(scans) :
    /\ scans[i].taken
    /\ LET g1 == [G EXCEPT !.scans = SubSeq(@, 1, i - 1) \o SubSeq(@, i + 1, Len(@))]
           others == scans[i].pids \ {readPid(g1)}
       IN IF others # {}
            THEN Commit(Log([g1 EXCEPT !.killTimers = @ \cup {[src |-> "stray", pids |-> others]}],
                            "anomaly.strays"))
            ELSE Commit(g1)

\* ------------------------------------------------------------- environment
\* the worker writes its pid to the pid file
WorkerWritePid ==
  \E w \in Workers :
    /\ proc[w] = "alive"
    /\ pidFile # w
    /\ Commit([GE EXCEPT !.pidFile = w])

\* the worker process ends (crash, or exit after a signal)
WorkerExit ==
  \E w \in Workers :
    /\ proc[w] = "alive"
    /\ Commit([GE EXCEPT !.proc[w] = "zombie"])

\* a writer replaces status.json (temp file + rename)
WriteStatus(records) ==
  \E r \in records :
    /\ r # statusFile
    /\ Commit([GE EXCEPT !.statusFile = r])

\* time passes
StartTime == 100
Horizon == 2
TickSteps == {1, 16, 21, 31}

Tick ==
  \E d \in TickSteps :
    /\ now + d <= StartTime + Horizon
    /\ Commit([GE EXCEPT !.now = @ + d])

\* ------------------------------------------------------------ specifications
\* The module-level variables as initialised at load (lines 853-874).
InitModule ==
  /\ userRequestedStop = FALSE
  /\ pendingRestartTimer = FALSE
  /\ systemPaused = FALSE
  /\ killTimers = {}
  /\ prefs = [backend |-> "auto"]
  /\ prefsFile = prefs
  /\ backendSwitchReason = FALSE
  /\ pollScheduled = TRUE
  /\ consecutiveDisplayErrors = 0
  /\ consecutiveUnidentified = 0
  /\ lastHealthRestart = 0
  /\ lastSuccessfulStatus = 0
  /\ lastLoggedCaptureCount = -1
  /\ lastLoggedError = NoError
  /\ lastHeartbeat = 0
  /\ lastInstanceId = NoInstance
  /\ lastSequence = -1
  /\ lastSequenceTs = 0
  /\ lastServiceInstance = NoInstance
  /\ now = StartTime
  /\ seqObserved = FALSE
  /\ dupRun = [n |-> 0, logs |-> 0]
  /\ healthTimers = 0
  /\ healthRestartLog = <<>>
  /\ stallCycles = 0
  /\ stopAsked = "no"
  /\ pauseCauses = {}
  /\ logLevel = ""
  /\ recent = [len |-> 0, newest |-> {}]
  /\ pass = NoSecret
  /\ loop2 = [at |-> "none", pass |-> NoSecret]
  /\ socks = [c \in Conns |-> NoSock]
  /\ out = NoOut

\* The module has been loaded and the app is not ready yet.
Init ==
  /\ InitModule
  /\ flow = "load"
  /\ needPass \in BOOLEAN
  /\ autostartMode \in BOOLEAN
  /\ spawnFaults = TRUE
  /\ needPassGlobal = FALSE
  /\ unlockedSuccessfully = FALSE
  /\ unlockedUI = FALSE
  /\ unlockServer = "none"
  /\ serverSecret = NoSecret
  /\ keymgr = [wrap |-> IF needPass THEN "p1" ELSE NoSecret,
               consecutive_failures |-> 0, lock_until |-> NoLock]
  /\ windowOpen = FALSE
  /\ keyProduced = FALSE
  /\ spawnInFlight = FALSE
  /\ captureProc = NoPid
  /\ pidFile = NoPid
  /\ proc = [w \in Workers |-> "unborn"]
  /\ bornAt = [w \in Workers |-> 0]
  /\ timers = [k \in TimerKinds |-> 0]
  /\ scans = <<>>
  /\ statusFile = StatusAbsent

\* An unlocked session (protected key, interactive unlock at startup, main
\* window open).
Unlocked ==
  /\ flow = "ready"
  /\ needPass = TRUE
  /\ needPassGlobal = TRUE
  /\ autostartMode = FALSE
  /\ unlockedSuccessfully = TRUE
  /\ unlockedUI = TRUE
  /\ unlockServer = "pass"
  /\ serverSecret = "p1"
  /\ keymgr = [wrap |-> "p1", consecutive_failures |-> 0, lock_until |-> NoLock]
  /\ windowOpen = TRUE
  /\ keyProduced = TRUE

\* The state ServerListening leaves at startup: the first worker has just
\* been spawned, its pre-start scan and pid-file verification are pending.
InitRun ==
  /\ InitModule
  /\ Unlocked
  /\ spawnFaults = FALSE
  /\ spawnInFlight = TRUE
  /\ captureProc = 1
  /\ pidFile = NoPid
  /\ proc = [w \in Workers |-> IF w = 1 THEN "alive" ELSE "unborn"]
  /\ bornAt = [w \in Workers |-> IF w = 1 THEN StartTime ELSE 0]
  /\ timers = [k \in TimerKinds |-> IF k = "verify" THEN 1 ELSE 0]
  /\ scans = <<[taken |-> FALSE, pids |-> {}, own |-> 1]>>
  /\ statusFile = StatusAbsent

\* The same session later: the worker has written its pid file, the scan
\* and the verification have completed.
InitSteady ==
  /\ InitModule
  /\ Unlocked
  /\ spawnFaults = FALSE
  /\ spawnInFlight = FALSE
  /\ captureProc = 1
  /\ pidFile = 1
  /\ proc = [w \in Workers |-> IF w = 1 THEN "alive" ELSE "unborn"]
  /\ bornAt = [w \in Workers |-> IF w = 1 THEN StartTime ELSE 0]
  /\ timers = [k \in TimerKinds |-> 0]
  /\ scans = <<>>
  /\ statusFile = StatusAbsent

\* status records of the ingestion specification: records of two worker
\* instances with a numeric sequence, and legacy records without one
PollRecords ==
  {StatusRecord(TRUE, q, i, c, "t1", "mss", e, FALSE) :
     q \in 0..MaxSeq, i \in {"A", "B"}, c \in {1, 2}, e \in {NoError, "other"}}
  \cup {StatusRecord(FALSE, 0, NoInstance, c, "t1", "mss", NoError, FALSE) : c \in {1, 2}}
  \cup {StatusAbsent, StatusTorn(TRUE), StatusTorn(FALSE)}

WritePollStatus == WriteStatus(PollRecords)

\* status records of the duplicate-frame specification: one instance
\* capturing one window
DupRecords ==
  {StatusRecord(TRUE, q, "A", c, "t1", "mss", NoError, d) :
     q \in 0..MaxDupSeq, c \in {1, 2}, d \in BOOLEAN}

WriteDupStatus ==
  \E r \in DupRecords :
    /\ statusFile.kind = "json" => r.seq = statusFile.seq + 1
    /\ Commit([GE EXCEPT !.statusFile = r])

\* Startup and gating: every startup path, then the automatic starters
\* that need no status record.
Next ==
  \/ AppReady \/ RawServerListening \/ PromptSubmit \/ RecoverySaved
  \/ ServerListening
  \/ SystemPause \/ SystemResume \/ ResumeTimerFire \/ Monitor
  \/ VerifyTimerFire \/ KillTimerFire
  \/ ChildExit \/ PsList \/ ScanClose
  \/ WorkerWritePid \/ WorkerExit

Spec == Init /\ [][Next]_vars

\* The running session: the control surface and every automatic starter
\* that needs no status record.
NextRun ==
  \/ UserStart \/ UserStop \/ PrefsSet \/ DataPurge
  \/ SystemPause \/ SystemResume \/ ResumeTimerFire \/ Monitor
  \/ PrefsTimerFire \/ VerifyTimerFire \/ KillTimerFire
  \/ ChildExit \/ PsList \/ ScanClose
  \/ WorkerWritePid \/ WorkerExit

SpecRun == InitRun /\ [][NextRun]_vars

\* Status ingestion of a running session.
NextPoll == WritePollStatus \/ PollStatus \/ Tick

SpecPoll == InitSteady /\ [][NextPoll]_vars

\* Duplicate-frame reporting of a running session: the worker writes its
\* records in sequence order.
NextDup == WriteDupStatus \/ PollStatus

SpecDup == InitSteady /\ [][NextDup]_vars

\* time passes in a specification with its own horizon
Elapse(steps, horizon) ==
  \E d \in steps :
    /\ now + d <= StartTime + horizon
    /\ Commit([GE EXCEPT !.now = @ + d])

\* The 5 s interval of the stall detector is long against the timeouts of
\* a restart (SIGKILL escalation 0.8 s, restart 1.2 s, pid-file check
\* 1.8 s) and against the delivery of a child's 'exit' event: a tick finds
\* the timeouts of the previous tick fired and dead children reaped.
StallTick ==
  /\ killTimers = {}
  /\ \A k \in TimerKinds : timers[k] = 0
  /\ scans = <<>>
  /\ \A w \in Workers : proc[w] # "zombie"
  /\ StallDetector

StallHorizon == 22
StallSteps == {21}

\* records of the stall specification: healthy records of one instance
StallRecords ==
  {StatusRecord(TRUE, q, "A", 1, "t1", "mss", NoError, FALSE) : q \in 1..MaxSeq}

WriteStallStatus == WriteStatus(StallRecords)

StallTime == Elapse(StallSteps, StallHorizon)

\* A running session whose worker stops advancing its sequence.
NextStall ==
  \/ WriteStallStatus \/ PollStatus \/ StallTime \/ StallTick
  \/ RestartTimerFire \/ VerifyTimerFire \/ KillTimerFire
  \/ ChildExit \/ PsList \/ ScanClose \/ WorkerWritePid

SpecStall == InitSteady /\ [][NextStall]_vars

HealthHorizon == 16
HealthSteps == {16}

\* records of the health specification: one instance reporting no error, a
\* display error or some other error
HealthRecords ==
  {StatusRecord(TRUE, 1, "A", 1, "t1", "mss", e, FALSE) :
     e \in {NoError, "display", "other"}}

WriteHealthStatus == WriteStatus(HealthRecords)

HealthTime == Elapse(HealthSteps, HealthHorizon)

\* A running session whose worker reports display errors, with the user's
\* start and stop and the system pause.
NextHealth ==
  \/ WriteHealthStatus \/ PollStatus \/ HealthTime \/ HealthTimerFire
  \/ UserStart \/ UserStop \/ SystemPause
  \/ KillTimerFire \/ ChildExit \/ WorkerWritePid

SpecHealth == InitSteady /\ [][NextHealth]_vars

\* records of the backend specification: one instance reporting no error,
\* the UnidentifiedImageError signature or some other error, captured with
\* the imagegrab or the mss backend
BackendRecords ==
  {StatusRecord(TRUE, 1, "A", 1, "t1", b, e, FALSE) :
     b \in {"imagegrab", "mss"}, e \in {NoError, "unidentified", "other"}}

WriteBackendStatus == WriteStatus(BackendRecords)

\* A running session whose worker reports UnidentifiedImageError.
NextBackend ==
  \/ WriteBackendStatus \/ PollStatus \/ RestartTimerFire \/ UserStop
  \/ VerifyTimerFire \/ KillTimerFire
  \/ ChildExit \/ PsList \/ ScanClose \/ WorkerWritePid

SpecBackend == InitSteady /\ [][NextBackend]_vars

\* A running session that is paused and resumed by the system while the
\* user starts and stops capture and the periodic monitor runs.
NextPause ==
  \/ SystemPause \/ SystemResume \/ ResumeTimerFire \/ UserStart \/ UserStop
  \/ Monitor
  \/ VerifyTimerFire \/ KillTimerFire
  \/ ChildExit \/ PsList \/ ScanClose \/ WorkerWritePid \/ WorkerExit

SpecPause == InitSteady /\ [][NextPause]_vars

\* records of the capture-count specification: two instances, counts that
\* differ by more than the regression tolerance
CountRecords ==
  {StatusRecord(TRUE, q, i, c, "t1", "mss", NoError, FALSE) :
     q \in 1..MaxSeq, i \in {"A", "B"}, c \in {1, 2 + RegressionTolerance}}

WriteCountStatus == WriteStatus(CountRecords)

\* Status ingestion of records whose capture_count goes up and down.
NextCount == WriteCountStatus \/ PollStatus

SpecCount == InitSteady /\ [][NextCount]_vars

\* Launch, every startup path, and the clients of the unlock server.
NextUnlock ==
  \/ AppReady \/ RawServerListening \/ PromptSubmit \/ RecoverySaved
  \/ ServerListening \/ UnlockRequest
  \/ VerifyTimerFire \/ WorkerWritePid

SpecUnlock == Init /\ [][NextUnlock]_vars

\* One supervisor session from launch: the unlock server and its clients,
\* passphrase rotation, and workers that exit and are restarted by the
\* periodic monitor.
NextSession ==
  \/ AppReady \/ RawServerListening \/ PromptSubmit \/ RecoverySaved
  \/ ServerListening \/ UnlockRequest \/ AuthChange
  \/ Monitor \/ VerifyTimerFire \/ KillTimerFire
  \/ ChildExit \/ PsList \/ ScanClose \/ WorkerWritePid \/ WorkerExit

SpecSession == Init /\ [][NextSession]_vars

\* Two clients of the passphrase-mode unlock server whose chunks interleave.
NextConn == Connect \/ SocketData

SpecConn == InitSteady /\ [][NextConn]_vars

\* Terminations of the first worker of a session, from the moment it is
\* spawned: user stop, data purge and system pause, the escalation
\* timeouts and the worker's own exit.  Timeouts and 'exit' events are
\* delivered; a worker need not honour SIGTERM.
NextTerm ==
  \/ UserStop \/ DataPurge \/ SystemPause
  \/ VerifyTimerFire \/ KillTimerFire
  \/ ChildExit \/ PsList \/ ScanClose \/ WorkerWritePid \/ WorkerExit

SpecTerm ==
  /\ InitRun /\ [][NextTerm]_vars
  /\ WF_vars(KillTimerFire) /\ WF_vars(ChildExit)
  /\ WF_vars(PsList) /\ WF_vars(ScanClose)

\* A running session whose preferences are changed, without any start or
\* stop by the user.  Timeouts, 'exit' events, ps listings and the periodic
\* monitor are delivered.
NextPrefs ==
  \/ PrefsSet \/ PrefsTimerFire \/ Monitor
  \/ VerifyTimerFire \/ KillTimerFire
  \/ ChildExit \/ PsList \/ ScanClose \/ WorkerWritePid \/ WorkerExit

SpecPrefs ==
  /\ InitSteady /\ [][NextPrefs]_vars
  /\ WF_vars(PrefsTimerFire) /\ WF_vars(Monitor)
  /\ WF_vars(VerifyTimerFire) /\ WF_vars(KillTimerFire)
  /\ WF_vars(ChildExit) /\ WF_vars(PsList) /\ WF_vars(ScanClose)

LockHorizon == 4

LockTime == Elapse({1}, LockHorizon)

\* Launch and the prompt loop while the key manager counts failures and
\* locks, and the system pauses and resumes.
NextLock ==
  \/ AppReady \/ RawServerListening \/ PromptSubmit \/ RecoverySaved
  \/ ServerListening \/ LockTime
  \/ SystemPause \/ SystemResume \/ ResumeTimerFire

SpecLock == Init /\ [][NextLock]_vars

\* One session from launch with the user's start, stop and purge and the
\* system pause, up to the moment the first `ps` listing ends: every
\* rejection of a start request occurs.
SpecGate ==
  /\ Init
  /\ [][\/ AppReady \/ RawServerListening \/ PromptSubmit \/ RecoverySaved
        \/ ServerListening
        \/ UserStart \/ UserStop \/ DataPurge
        \/ SystemPause \/ SystemResume \/ ResumeTimerFire
        \/ VerifyTimerFire \/ WorkerWritePid]_vars

\* A running session with overlapping causes of a system pause (screen
\* lock and suspend), without a start or stop by the user.
SpecCauses ==
  /\ InitSteady
  /\ [][\/ PauseEvent \/ ResumeEvent \/ ResumeTimerFire
        \/ VerifyTimerFire \/ KillTimerFire
        \/ ChildExit \/ PsList \/ ScanClose \/ WorkerWritePid \/ WorkerExit]_vars

\* The logger on its own: calls at every level under every threshold.
SpecLogger == InitSteady /\ [][Logger \/ SetLevel]_vars

\* Two workers overwrite the status file in turn: the lingering older
\* worker is instance "A", the restarted worker is instance "B", which
\* writes its first record after A has written one.
WriteCompeting ==
  \E r \in {StatusRecord(TRUE, q, i, c, "t1", "mss", NoError, FALSE) :
               q \in 0..MaxSeq, i \in {"A", "B"}, c \in {1, 2}} :
    /\ r # statusFile
    /\ r.inst = "B" => statusFile.kind = "json"
    /\ Commit([GE EXCEPT !.statusFile = r])

SpecWriters == InitSteady /\ [][WriteCompeting \/ PollStatus]_vars

\* Launch while further launch attempts start further prompt loops.  Only
\* the passphrase modal of a protected session is answered.
SpecLoops ==
  /\ Init
  /\ [][\/ AppReady \/ RawServerListening \/ SecondInstance \/ SubmitWindow
        \/ ServerListening \/ LoopServerListening
        \/ VerifyTimerFire \/ WorkerWritePid]_vars

\* --------------------------------------------------------------- properties
\* a step in which the supervisor spawns a worker
SpawnStep == \E w \in Workers : proc[w] = "unborn" /\ proc'[w] # "unborn"

\* a step that leaves nothing behind that could start a worker later
NothingQueued ==
  /\ \A k \in TimerKinds : timers'[k] <= timers[k]
  /\ killTimers' \subseteq killTimers
  /\ Len(scans') <= Len(scans)
  /\ pendingRestartTimer' => pendingRestartTimer
  /\ spawnInFlight' = spawnInFlight
  /\ captureProc' = captureProc

\* a step that is a poll of the status file, and the record it read
PollStep == out'.poll # "none"
PolledRecord == statusFile.kind = "json"

\* C1: in every reachable state, a worker has been spawned only if the key
\* manager has produced a usable key in this session.
C1_WorkerOnlyWithKey ==
  (\E w \in Workers : proc[w] # "unborn") => keyProduced

\* C2: a start request made while the supervisor is Locked spawns no worker
\* and queues nothing (no timer, no scan, no in-flight spawn is left
\* behind); every spawn belongs to a start request made while not Locked.
C2_LockedStartSpawnsNothing ==
  [][/\ \A r \in out'.starts :
          r.locked => /\ r.action \in {"already", "suppressed", "in-flight", "deferred"}
                      /\ ~SpawnStep
                      /\ NothingQueued
     /\ SpawnStep => \E r \in out'.starts : ~r.locked /\ r.action = "started"]_vars

C2_Witness ==
  \E r \in out.starts : r.locked /\ r.action = "deferred"

C4_AtMostOneWorkerAlive ==
  Cardinality({w \in Workers : proc[w] = "alive"}) <= 1

\* C5: a polled record of the tracked instance whose sequence is lower than
\* the last accepted one is dropped and changes none of lastSequence,
\* lastSequenceTs, lastLoggedCaptureCount, lastLoggedError; one whose
\* sequence is equal or higher is accepted and becomes the baseline.
C5_LowerSequenceDropped ==
  [][(/\ PollStep /\ PolledRecord
      /\ statusFile.hasSeq
      /\ seqObserved
      /\ statusFile.inst = lastServiceInstance) =>
       IF statusFile.seq < lastSequence
         THEN /\ out'.poll = "stale_seq"
              /\ UNCHANGED <<lastSequence, lastSequenceTs,
                             lastLoggedCaptureCount, lastLoggedError>>
         ELSE /\ out'.poll = "accepted"
              /\ lastSequence' = statusFile.seq]_vars

C5_Witness ==
  /\ out.poll = "stale_seq"
  /\ statusFile.inst = lastServiceInstance
  /\ statusFile.seq < lastSequence

\* C6: a polled record that carries an instance id different from the last
\* seen instance is accepted whatever its sequence; afterwards the baseline
\* is the record's sequence and the tracked instance is the record's.
C6_NewInstanceResetsBaseline ==
  [][(/\ PollStep /\ PolledRecord
      /\ statusFile.hasSeq
      /\ statusFile.inst # NoInstance
      /\ lastInstanceId # NoInstance
      /\ statusFile.inst # lastInstanceId) =>
       /\ out'.poll = "accepted"
       /\ lastSequence' = statusFile.seq
       /\ lastServiceInstance' = statusFile.inst
       /\ lastInstanceId' = statusFile.inst]_vars

C6_Witness ==
  /\ out.poll = "accepted"
  /\ "lifecycle.baselinereset" \in out.logs
  /\ statusFile.seq < out.base
  /\ lastSequence = statusFile.seq
  /\ lastServiceInstance = statusFile.inst

\* C7: once a sequence has been observed, a polled record without a
\* numeric sequence is dropped with the '[stale]' line and changes no
\* tracked ingestion state; before that such a record is accepted.
C7_LegacyRecordDropped ==
  [][(PollStep /\ PolledRecord /\ ~statusFile.hasSeq) =>
       IF seqObserved
         THEN /\ out'.poll = "stale_legacy"
              /\ "stale" \in out'.logs
              /\ UNCHANGED <<lastInstanceId, lastServiceInstance, lastSequence,
                             lastSequenceTs, lastLoggedCaptureCount, lastLoggedError>>
         ELSE out'.poll = "accepted"]_vars

C7_Witness ==
  /\ out.poll = "stale_legacy"
  /\ seqObserved
  /\ ~statusFile.hasSeq

\* C8: the poll of a record that is dropped as stale broadcasts no
\* 'status:update' event; its output is the '[stale]' log line.
C8_StaleNotSurfaced ==
  out.poll \in {"stale_seq", "stale_legacy"} =>
    out.status = {} /\ out.logs = {"stale"}

\* C9: after every poll a further poll is scheduled, and a poll that could
\* not read or parse the file changes no supervisor state.
C9_PollAlwaysRescheduled ==
  [][PollStep =>
       /\ pollScheduled'
       /\ out'.poll = "unreadable" =>
            UNCHANGED <<lastInstanceId, lastServiceInstance, lastSequence,
                        lastSequenceTs, lastLoggedCaptureCount, lastLoggedError,
                        lastSuccessfulStatus, lastHealthRestart, lastHeartbeat,
                        consecutiveDisplayErrors, consecutiveUnidentified,
                        prefs, pendingRestartTimer, timers, killTimers>>]_vars

\* C10: a run of two or more consecutive duplicate-frame records yields
\* exactly one '[duplicate]' log entry.
C10_DuplicateRunLoggedOnce ==
  dupRun.n >= 2 => dupRun.logs = 1

\* C11: a stall (worker pid alive, no sequence advance for more than the
\* stall window) leads to one stop-and-restart cycle: the detector does not
\* trigger again before a record of the replacement worker has been polled.
C11_OneRestartPerStall == stallCycles <= 1

\* an accepted poll of a status record
AcceptedPoll == PolledRecord /\ out'.poll = "accepted"

\* the display-error count the polled record leads to, and the threshold
\* that applies to it
DisplayCount ==
  IF statusFile.error = "display" THEN consecutiveDisplayErrors + 1 ELSE 0

DisplayThreshold == IF lastSuccessfulStatus = 0 THEN 1 ELSE 3

\* what a poll that triggers the display-error health restart does
HealthRestartEffect ==
  /\ pendingRestartTimer'
  /\ healthTimers' = 1
  /\ ~SpawnStep
  /\ consecutiveDisplayErrors' = 0
  /\ readPid(G) # NoPid =>
        [src |-> "escalate", pids |-> {readPid(G)}] \in killTimers'

\* C12 as stated: the display-error health restart is triggered exactly
\* when the count of consecutive display errors has reached the threshold
\* (1 before the first error-free status, 3 afterwards) and neither a user
\* stop nor a system pause is in effect.
C12_RestartExactlyAtThreshold ==
  [][AcceptedPoll =>
       ("health.restart" \in out'.logs <=>
          /\ DisplayCount >= DisplayThreshold
          /\ ~userRequestedStop
          /\ ~systemPaused)]_vars

\* C12 amended: an accepted poll triggers the display-error health restart
\* exactly when the count of consecutive display errors is at least the
\* threshold, neither a user stop nor a system pause is in effect, and more
\* than 15 s have passed since the last health restart; the trigger stops
\* the worker internally and schedules the restart without spawning, and
\* resets the count; without a trigger the count is 0 after an error-free
\* or non-display-error status and one higher after a display error.  No
\* other step triggers the restart.
C12_RestartAtThresholdAfterCooldown ==
  [][/\ AcceptedPoll =>
          LET due == /\ DisplayCount >= DisplayThreshold
                     /\ ~userRequestedStop
                     /\ ~systemPaused
                     /\ now - lastHealthRestart > HealthCooldown
          IN /\ "health.restart" \in out'.logs <=> due
             /\ due => HealthRestartEffect
             /\ ~due => consecutiveDisplayErrors' = DisplayCount
     /\ ~AcceptedPoll => "health.restart" \notin out'.logs]_vars

\* the restart is triggered by the third display error after an error-free
\* status, with a live worker to stop
C12_Witness ==
  /\ "health.restart" \in out.logs
  /\ lastSuccessfulStatus # 0
  /\ pendingRestartTimer
  /\ killTimers # {}

\* any two display-error health restarts are more than the cooldown apart
HealthRestartsSpaced ==
  \A i, j \in 1..Len(healthRestartLog) :
    i < j => healthRestartLog[j] - healthRestartLog[i] > HealthCooldown

\* C13: any two display-error health restarts are more than 15 s apart; at
\* most one health restart timer is pending at any time; a user stop and an
\* accepted start leave no health restart timer pending.
C13_SpacedRestartsOneTimer ==
  [][/\ HealthRestartsSpaced'
     /\ healthTimers' <= 1
     /\ (stopAsked = "no" /\ stopAsked' # "no") => healthTimers' = 0
     /\ (\E r \in out'.starts : r.action = "started") => healthTimers' = 0]_vars

\* the polled record is the third in a row with the UnidentifiedImageError
\* signature under imagegrab, and the preference is not 'mss' yet
BackendSwitchDue ==
  /\ statusFile.error = "unidentified"
  /\ statusFile.backend = "imagegrab"
  /\ consecutiveUnidentified + 1 = UnidentifiedLimit
  /\ prefs.backend # "mss"

\* C14: the third consecutive polled status with the UnidentifiedImageError
\* signature under imagegrab, with a preference other than 'mss', sets the
\* preference to 'mss', persists it, records the switch reason for the next
\* spawn, stops the worker and schedules one restart; once the preference is
\* 'mss' it stays 'mss' and no backend-switch restart is triggered again.
C14_BackendSwitchOnce ==
  [][/\ (PollStep /\ PolledRecord) =>
          /\ "health.backendswitch" \in out'.logs <=> BackendSwitchDue
          /\ BackendSwitchDue =>
                /\ prefs'.backend = "mss"
                /\ prefsFile'.backend = "mss"
                /\ backendSwitchReason'
                /\ timers'["backend"] = timers["backend"] + 1
                /\ ~SpawnStep
                /\ readPid(G) # NoPid =>
                      [src |-> "escalate", pids |-> {readPid(G)}] \in killTimers'
          /\ ~BackendSwitchDue => timers'["backend"] = timers["backend"]
     /\ ~(PollStep /\ PolledRecord) =>
          /\ "health.backendswitch" \notin out'.logs
          /\ timers'["backend"] <= timers["backend"]
     /\ prefs.backend = "mss" =>
          /\ prefs'.backend = "mss"
          /\ "health.backendswitch" \notin out'.logs
     /\ \A r \in out'.starts :
          (r.action = "started" /\ backendSwitchReason) =>
             r.env = [forceBackend |-> "mss", switchReason |-> TRUE]]_vars

\* after the switch and the restart the error has come back three times in
\* a row, and nothing was switched or restarted again
C14_Witness ==
  /\ backendSwitchReason
  /\ pidFile = 2 /\ proc[2] = "alive"
  /\ out.poll # "none"
  /\ statusFile.kind = "json"
  /\ statusFile.error = "unidentified" /\ statusFile.backend = "imagegrab"
  /\ consecutiveUnidentified = UnidentifiedLimit
  /\ "health.backendswitch" \notin out.logs
  /\ killTimers = {}

\* a step in which the system pause takes effect, and one in which a
\* health check stops the worker
PauseStep == ~systemPaused /\ systemPaused'

HealthStopStep ==
  out'.logs \cap {"health.restart", "health.stalled", "health.backendswitch"} # {}

\* C15: a system pause and an internal health stop signal the worker and
\* leave userRequestedStop as it was, in every state.
C15_PauseAndHealthStopKeepUserStop ==
  [][/\ (PauseStep \/ HealthStopStep) =>
          /\ userRequestedStop' = userRequestedStop
          /\ readPid(G) # NoPid =>
                [src |-> "escalate", pids |-> {readPid(G)}] \in killTimers'
     /\ pauseCaptureForSystem(G).userRequestedStop = userRequestedStop
     /\ internalStopForHealth(G).userRequestedStop = userRequestedStop]_vars

\* the session is paused with a worker being terminated, after a health
\* stop earlier, and no user stop is recorded
C15_Witness ==
  /\ systemPaused
  /\ healthRestartLog # <<>>
  /\ killTimers # {}
  /\ ~userRequestedStop

\* a step in which the resume timeout runs
ResumeTimerStep == timers'["resume"] < timers["resume"]

\* C16: after a resume the settle timeout does not restart the worker when
\* the user has requested a stop while the system was paused (and has not
\* asked for a start since).
C16_NoRestartAfterStopWhilePaused ==
  [][(ResumeTimerStep /\ SpawnStep) => stopAsked # "paused"]_vars

\* C17: while the system is paused no worker is spawned through an
\* automatic path; only a start the user asks for may spawn one.
C17_NoAutomaticSpawnWhilePaused ==
  [][(systemPaused /\ systemPaused' /\ SpawnStep) =>
       \A r \in out'.starts : r.action = "started" => r.userInitiated]_vars

\* C18: when a start request spawns the worker, the stray scan of that
\* request has delivered its result: no `ps` listing is in flight after the
\* step that spawns.
C18_ScanCompleteBeforeSpawn ==
  [][SpawnStep => scans' = <<>>]_vars

\* the polled record is of the instance being tracked and its capture_count
\* is lower than the last one logged by more than the tolerance
CountRegressed ==
  /\ statusFile.inst = lastInstanceId
  /\ lastLoggedCaptureCount # -1
  /\ statusFile.count < lastLoggedCaptureCount - RegressionTolerance

\* C19: an accepted record of the tracked instance whose capture_count has
\* regressed by more than the tolerance is logged as an anomaly and starts a
\* stray-process scan; the first record of a new instance raises no
\* regression anomaly.
C19_RegressionLoggedAndScanned ==
  [][AcceptedPoll =>
       /\ CountRegressed =>
             /\ "anomaly.regressed" \in out'.logs
             /\ out'.scans >= 1
       /\ statusFile.inst # lastInstanceId =>
             "anomaly.regressed" \notin out'.logs]_vars

\* well-formed requests with a token that was never issued, and with the
\* issued token but an action other than 'get_key'
NeverIssued == {r \in Requests : r.wellFormed /\ r.token = "never"}
WrongAction ==
  {r \in Requests : r.wellFormed /\ r.token = "issued" /\ r.action # "get_key"}

\* the program state a handler leaves, without what it emitted
StateOf(g) == [g EXCEPT !.out = NoOut]

\* C20: a well-formed request with a never-issued token (any action) and
\* one with the issued token but an action other than 'get_key' get the same
\* reply, {status:'error', msg:'invalid_token_or_action'}, and have the same
\* side effects: no key is released and the unlocked flag is unchanged.
C20_NoTokenOracle ==
  [][/\ \A r \in out'.reqs :
          r \in NeverIssued \cup WrongAction =>
            /\ out'.replies = {ReplyInvalid}
            /\ unlockedSuccessfully' = unlockedSuccessfully
            /\ unlockServer' = unlockServer
     /\ unlockServer # "none" =>
          \A r1 \in NeverIssued, r2 \in WrongAction, h1, h2 \in UnwrapResults :
             /\ unlockRequest(G, r1, h1).out.replies = {ReplyInvalid}
             /\ unlockRequest(G, r2, h2).out.replies = {ReplyInvalid}
             /\ StateOf(unlockRequest(G, r1, h1)) = StateOf(G)
             /\ StateOf(unlockRequest(G, r2, h2)) = StateOf(G)]_vars

\* a request with the issued token and a wrong action has been answered
C20_Witness ==
  /\ unlockServer # "none"
  /\ \E r \in out.reqs : r \in WrongAction
  /\ out.replies = {ReplyInvalid}

\* a step in which the unlock server handles a get_key request that carries
\* the token of the session
KeyRequestStep ==
  \E req \in out'.reqs : req.wellFormed /\ req.token = "issued" /\ req.action = "get_key"

\* C21: within one supervisor session every get_key request that carries
\* the session token is answered with status 'ok' and the data key, unless
\* the unwrap helper could not be run at all, and the server stays open
\* after the request; in raw mode the key is the secret given to the server.
C21_SessionTokenAlwaysServed ==
  [][KeyRequestStep =>
       /\ out'.replies \subseteq {ReplyKey, ReplyHelper("error")}
       /\ unlockServer' = unlockServer
       /\ unlockServer = "raw" => out'.replies = {[ReplyKey EXCEPT !.key_b64 = serverSecret]}]_vars

\* C22: after a successful passphrase change the passphrase-mode unlock
\* server holds the secret that the wrapped key is now wrapped under.
C22_ServerHoldsCurrentSecret ==
  (unlockServer = "pass" /\ keymgr.wrap # NoSecret) => serverSecret = keymgr.wrap

\* the reply that the connection handler gives to a request line
ReplyTo(req, res) ==
  IF ~req.wellFormed THEN ReplyBadJson
  ELSE IF req.token # "issued" \/ req.action # "get_key" THEN ReplyInvalid
  ELSE IF unlockServer = "raw" THEN [ReplyKey EXCEPT !.key_b64 = serverSecret]
  ELSE IF res = "0" THEN ReplyKey ELSE ReplyHelper(res)

\* connection c is answered in this step
Answered(c) == socks[c].state = "open" /\ socks'[c].state = "ended"

\* C23: whatever the interleaving of the chunks of two connections, a
\* connection is answered once the last chunk of its own line has arrived,
\* with the reply to the line that was sent on it, and its buffer never
\* holds a chunk of the other connection.
C23_ReplyFromOwnBytes ==
  [][\A c \in Conns :
       /\ Answered(c) =>
            /\ socks'[c].pend = <<>>
            /\ out'.reqs = socks[c].sent
            /\ \E res \in UnwrapResults :
                 out'.replies = {ReplyTo(CHOOSE r \in socks[c].sent : TRUE, res)}
       /\ ~(socks'[c].state = "open" /\ socks'[c].pend = <<>>)
       /\ \A i \in 1..Len(socks'[c].buf) : socks'[c].buf[i].req \in socks'[c].sent]_vars

\* connection 1 has just been answered from its two chunks while the head
\* of a different line, which arrived in between, waits on connection 2
C23_Witness ==
  /\ socks[1].state = "ended" /\ Len(socks[1].buf) = 2
  /\ out.reqs = socks[1].sent
  /\ socks[2].state = "open" /\ Len(socks[2].buf) = 1
  /\ socks[1].sent # socks[2].sent

\* a step of the prompt loop
PromptStep == flow = "modal" /\ flow' \in {"modal", "recovery", "listen"}

\* C24: in the prompt loop a failure is recorded only in an iteration whose
\* helper run exited with status 1; an iteration that ends with a complexity
\* rejection, a helper that could not be run, or a cancelled prompt leaves
\* the lockout state as it was.
C24_FailureOnlyAfterInvalid ==
  [][PromptStep =>
       /\ keymgr'.consecutive_failures > keymgr.consecutive_failures
            => out'.helper = {"1"}
       /\ out'.helper \subseteq {"3", "error"}
            => /\ keymgr'.consecutive_failures = keymgr.consecutive_failures
               /\ keymgr'.lock_until = keymgr.lock_until]_vars

\* the helper has just rejected a wrong passphrase with status 1 and the
\* failure that was recorded for it has locked the key manager
C24_Witness ==
  /\ flow = "modal" /\ out.helper = {"1"}
  /\ keymgr.consecutive_failures = LockThreshold
  /\ LockedOut(keymgr, now)

\* C25: while the key manager's lock_until is in the future no attempt is
\* accepted or counted; an iteration in which the key manager reports the
\* lock neither prompts nor runs the helper, and the helper run with the
\* right passphrase during the lock is rejected.
C25_NothingCountedWhileLocked ==
  [][(PromptStep /\ LockedOut(keymgr, now)) =>
       /\ keymgr' = keymgr
       /\ flow' = "modal"
       /\ "auth.locked" \in out'.logs => out'.helper = {}
       /\ out'.helper \subseteq {"4", "error"}
       /\ validate(keymgr, keymgr.wrap, now).status = "4"]_vars

\* the loop has just found the key manager locked
C25_Witness ==
  /\ flow = "modal" /\ LockedOut(keymgr, now)
  /\ "auth.locked" \in out.logs

\* C26: unless the helper accepts a passphrase, no step lowers
\* consecutive_failures or moves lock_until earlier, and an iteration that
\* only queries the lock state changes nothing of it.
C26_LockoutMonotonic ==
  [][/\ "0" \notin out'.helper =>
          /\ keymgr'.consecutive_failures >= keymgr.consecutive_failures
          /\ keymgr'.lock_until >= keymgr.lock_until
     /\ (PromptStep /\ out'.helper = {}) => keymgr' = keymgr]_vars

\* a later failure has moved an elapsed lock further into the future
C26_Witness ==
  /\ keymgr.consecutive_failures = 3
  /\ keymgr.lock_until > now
  /\ out.helper = {"1"}

\* C27: whatever the state in which the user asked for a stop, no worker is
\* spawned afterwards until the user asks for a start: a spawn in a state
\* whose last user request was a stop is the spawn of a user-initiated
\* start.
C27_StopHoldsInEveryState ==
  [][(stopAsked # "no" /\ SpawnStep) =>
       \E r \in out'.starts : r.userInitiated /\ r.action = "started"]_vars

\* C28: the interactive unlock proceeds in order.  The step that accepts
\* the passphrase starts neither the server nor a worker; the step in which
\* the server fails to listen spawns no worker and returns to the prompt;
\* the server starts listening only with an accepted passphrase, and in
\* that step, if the session was locked and no worker is alive, the worker
\* is started (or the spawn fails).
C28_UnlockOrder ==
  [][/\ (flow = "modal" /\ flow' \in {"recovery", "listen"}) =>
          /\ "0" \in out'.helper /\ pass' # NoSecret
          /\ unlockServer' = unlockServer /\ ~SpawnStep
     /\ (flow = "listen" /\ flow' = "modal") =>
          /\ unlockServer' = "none" /\ ~unlockedSuccessfully' /\ ~SpawnStep
     /\ (unlockServer = "none" /\ unlockServer' = "pass") =>
          /\ flow = "listen" /\ pass # NoSecret /\ serverSecret' = pass
          /\ (needPassGlobal /\ ~unlockedSuccessfully /\ readPid(G) = NoPid) =>
               \E r \in out'.starts : r.action \in {"started", "error"}]_vars

\* the server has just started listening in a session that was locked: the
\* start after the unlock spawned the worker and the start at the end of the
\* startup flow found the spawn in flight
C28_Witness ==
  /\ unlockServer = "pass" /\ needPassGlobal /\ flow = "ready"
  /\ {r.action : r \in out.starts} = {"started", "in-flight"}
  /\ \E w \in Workers : proc[w] = "alive"

\* worker w has been sent the graceful signal by a stop of the supervisor
Signalled(w) ==
  \/ \E t \in killTimers : t.src = "escalate" /\ w \in t.pids
  \/ "control.stop.childonly" \in out.logs /\ captureProc = w

\* C29: a worker that the supervisor has signalled to stop (user stop,
\* data purge, system pause, with or without a pid file) is eventually not
\* alive.
C29_TerminationCompletes ==
  \A w \in Workers : (Signalled(w) /\ proc[w] = "alive") ~> (proc[w] # "alive")

\* prefs:set has stopped the running worker (a stop that the user did not
\* ask for is in effect) and its restart timeout is pending
PrefsRestartPending ==
  timers["prefs"] > 0 /\ userRequestedStop /\ stopAsked = "no"

\* a worker other than the first one of the session has been spawned
Respawned == \E w \in Workers : w > 1 /\ proc[w] # "unborn"

\* scan i of the pending `ps` listings delivers its result in this step
ScanCloseStep(i) ==
  /\ scans[i].taken
  /\ scans' = SubSeq(scans, 1, i - 1) \o SubSeq(scans, i + 1, Len(scans))

\* the stray purges that begin in this step
NewStrayPurges == {t \in killTimers' \ killTimers : t.src = "stray"}

\* C30: after prefs:set has changed the interval or the log level of a
\* running worker that the user has not stopped, a new worker is eventually
\* spawned without a start by the user.
C30_PrefsChangeRestarts == PrefsRestartPending ~> Respawned

\* the results of startDetached that reject the request
Rejections == {"already", "suppressed", "in-flight", "deferred"}

\* C33: a start request that is rejected as 'already', 'suppressed',
\* 'in-flight' or 'deferred' changes no supervisor state and starts neither
\* a stray scan nor a worker, in every reachable state and for automatic and
\* user-initiated requests alike; a step that is a rejected start by the
\* user leaves userRequestedStop, pendingRestartTimer, spawnInFlight, the
\* child reference, the scans, the processes and the timers as they were.
C33_RejectedStartChangesNothing ==
  [][/\ \A u \in BOOLEAN :
          LET g == startDetached(G, "any", u, "ok")
          IN (\E r \in g.out.starts : r.action \in Rejections) =>
               /\ StateOf(g) = StateOf(G)
               /\ g.out.scans = 0
     /\ (/\ out'.starts # {}
         /\ \A r \in out'.starts : r.userInitiated /\ r.action \in Rejections) =>
          /\ UNCHANGED <<userRequestedStop, pendingRestartTimer, spawnInFlight,
                         captureProc, scans, proc, timers, killTimers>>
          /\ out'.scans = 0]_vars

\* the user's start has just been rejected as in-flight while the user stop
\* is active, and the stop is still active
C33_Witness ==
  /\ userRequestedStop
  /\ \E r \in out.starts : r.userInitiated /\ r.stopActive /\ r.action = "in-flight"

\* a spawn is marked in flight and no child of the supervisor is left whose
\* 'exit' event or pid file could end it: no later step clears spawnInFlight
Wedged ==
  spawnInFlight /\ \A w \in Workers : proc[w] \notin {"alive", "zombie"}

\* C34: a start request that fails to spawn the worker reports the error,
\* leaves no spawn in flight that nothing can end, and kills no process and
\* removes no pid file because of the failure.
C34_SpawnFailureNoWedge ==
  [][(\E r \in out'.starts : r.action = "error") =>
       /\ ~Wedged'
       /\ proc' = proc /\ killTimers' = killTimers /\ pidFile' = pidFile]_vars

\* C35: while a cause of a system pause is active (the screen is locked or
\* the system is suspended) the session stays paused, no restart is
\* scheduled and no worker is spawned, whichever other cause has ended.
C35_PausedUntilAllCausesEnd ==
  [][pauseCauses' # {} =>
       /\ systemPaused'
       /\ timers'["resume"] <= timers["resume"]
       /\ ~SpawnStep]_vars

\* C36: with more than one prompt loop active, one submission of the user
\* is validated once: no step records more than one lockout failure, and
\* no step sends more than one loop on to start an unlock server.
C36_OneSubmissionValidatedOnce ==
  [][/\ keymgr'.consecutive_failures <= keymgr.consecutive_failures + 1
     /\ ~(/\ flow = "modal" /\ flow' = "listen"
          /\ loop2.at = "modal" /\ loop2'.at = "listen")]_vars

\* a poll that found a parsed record in the status file
ParsedPoll(o) == o.poll \in {"accepted", "stale_seq", "stale_legacy"}

\* C37: the health counters count records, not polls: a poll that reads
\* again the record the previous poll has read (no write in between) does
\* not advance consecutiveDisplayErrors or consecutiveUnidentified, and a
\* poll that drops its record as stale changes neither these counters nor
\* lastSuccessfulStatus.
C37_CountersCountRecords ==
  [][/\ (ParsedPoll(out) /\ ParsedPoll(out')) =>
          /\ consecutiveDisplayErrors' <= consecutiveDisplayErrors
          /\ consecutiveUnidentified' <= consecutiveUnidentified
     /\ out'.poll \in {"stale_seq", "stale_legacy"} =>
          UNCHANGED <<consecutiveDisplayErrors, consecutiveUnidentified,
                      lastSuccessfulStatus>>]_vars

\* C38: of two competing writers, once the newer instance B is the tracked
\* instance, a poll of a record of the older instance A does not reset the
\* sequence baseline, the logged capture count or the tracked instance.
C38_OlderWriterNotReaccepted ==
  [][(/\ lastInstanceId = "B"
      /\ out'.poll # "none"
      /\ statusFile.kind = "json"
      /\ statusFile.inst = "A") =>
        /\ lastInstanceId' = "B"
        /\ lastSequence' = lastSequence
        /\ lastLoggedCaptureCount' = lastLoggedCaptureCount]_vars

\* C39: a data purge removes no key material: a wrapped key file that
\* exists before the purge (the file that makes the next launch ask for the
\* passphrase) exists after it, wrapped under the same passphrase.
C39_PurgeKeepsKeyMaterial ==
  [][(/\ windowOpen
      /\ StateOf(G)' = StateOf(dataPurge(G))
      /\ keymgr.wrap # NoSecret) =>
        keymgr'.wrap = keymgr.wrap]_vars

\* the rank of a level in TRACE < DEBUG < INFO < WARNING < ERROR < CRITICAL,
\* an unknown level ranking as INFO
LevelRank(l) ==
  CASE l = "TRACE" -> 0 [] l = "DEBUG" -> 1 [] l = "INFO" -> 2
    [] l = "WARNING" -> 3 [] l = "ERROR" -> 4 [] l = "CRITICAL" -> 5
    [] OTHER -> 2

\* the level of a call: the override, or the level derived from the
\* category and the message
CallLevel(c, m, o) ==
  toUpperCase(IF o # "" THEN o ELSE deriveLevelFromCategory(c, m))

\* C40: the logger filters by threshold.  In every state, a call whose
\* level ranks below the configured logLevel (unset: INFO) returns null,
\* writes and broadcasts nothing and leaves the recent-lines buffer alone;
\* any other call returns its line, writes it, broadcasts it and retains it
\* as the newest of the recent lines; the buffer never holds more than 500
\* lines.
C40_LoggerFiltersByThreshold ==
  /\ recent.len <= RECENT_MAX
  /\ \A c \in Categories, m \in Messages, o \in {"", "debug", "NOTICE"} :
       LET g == logger(G, c, m, o)
           line == [level |-> CallLevel(c, m, o), category |-> c, msg |-> m]
       IN IF LevelRank(CallLevel(c, m, o)) <
               LevelRank(IF logLevel = "" THEN "INFO" ELSE logLevel)
            THEN /\ g.out.log = {[ret |-> {}, file |-> {}, sent |-> {}]}
                 /\ g.recent = recent
            ELSE /\ g.out.log = {[ret |-> {line}, file |-> {line}, sent |-> {line}]}
                 /\ g.recent.newest = {line}
                 /\ g.recent.len = IF recent.len < RECENT_MAX
                                     THEN recent.len + 1 ELSE RECENT_MAX

\* a call below the threshold has returned null with the buffer full
C40_Witness ==
  /\ recent.len = RECENT_MAX
  /\ logLevel = "WARNING"
  /\ out.log = {[ret |-> {}, file |-> {}, sent |-> {}]}

\* a step in which the stall detector force-restarts the worker
StallRestartStep == "health.stalled" \in out'.logs

\* C32: the stall detector force-restarts a worker only if that worker
\* itself has been alive for more than the stall window without a sequence
\* advance: both its spawn and the last sequence advance are more than 20 s
\* in the past.
C32_StallOnlyOfOldWorker ==
  [][StallRestartStep =>
       /\ readPid(G) # NoPid
       /\ now - bornAt[readPid(G)] > StallWindow
       /\ now - lastSequenceTs > StallWindow]_vars

\* C31: whatever the order of the `ps` listing, the spawn and the worker's
\* write of its pid file, the processes signalled by the pre-start stray
\* purge of a start request never include the worker spawned by that request.
C31_OwnWorkerNotPurged ==
  [][\A i \in 1..Len(scans) :
       ScanCloseStep(i) =>
         \A t \in NewStrayPurges : scans[i].own \notin t.pids]_vars

=============================================================================
